---- MODULE Spec2Model ----
(***************************************************************************)
(* Conversation-step execution engine of the voice-agent backend:          *)
(* WorkflowEngine.start / WorkflowEngine.step (app/core/engine.py), the    *)
(* node executors (app/domain/nodes), the condition evaluator              *)
(* (app/core/router.py) and the template renderer (app/utils/templating).  *)
(*                                                                         *)
(* Text is modelled at word granularity: a string is a sequence of tokens, *)
(* a token being one of the syntax characters "{", "}", " ", "'", ".",     *)
(* the operator "==", or an atomic word.  Python values stored in          *)
(* `variables` are tagged records [t, v] where v is the token sequence     *)
(* that str(value) yields.                                                 *)
(***************************************************************************)
EXTENDS Integers, Sequences, FiniteSets, TLC

VARIABLES
    wf,      \* the Workflow definition the engine was built with (immutable)
    state,   \* the ConversationState object held by the caller
    phase,   \* "new": before start; "running": start returned; "failed": start raised
    call,    \* observation of the last start/step call
    steps,   \* number of step calls made on this run
    heap,    \* the dict objects holding variables, by identity
    runs,    \* several runs of one engine: each caller's state object
    db,      \* the persisted run record and its step records
    inflight \* the step_run requests between their loads and their saves

vars == <<wf, state, phase, call, steps, heap, runs, db, inflight>>

-----------------------------------------------------------------------------
(* Bounds of the model *)

MaxSteps == 2      \* step calls per run
MaxEdges == 2      \* length of a workflow's edge list
MaxMessages == 2   \* messages in a state handed to a single executor
MaxCalls == 2      \* step_run calls made on a persisted run
MaxRounds == 4     \* step calls of a run that is driven until it is done

-----------------------------------------------------------------------------
(* Values and text *)

None == "~"                                   \* Python None of an Optional[str]

S(text) == [t |-> "str", v |-> text]          \* a str value
B(b) == [t |-> "bool", v |-> IF b THEN <<"True">> ELSE <<"False">>]
Null == [t |-> "null", v |-> <<"None">>]      \* None as a stored value
ListVal == [t |-> "list", v |-> <<"[..]">>]   \* some list value

Str(value) == value.v                         \* str(value)

NoVars == [k \in {} |-> Null]                 \* the empty dict

Put(d, k, value) == [x \in (DOMAIN d) \cup {k} |-> IF x = k THEN value ELSE d[x]]

Message(role, content) == [role |-> role, content |-> content]

-----------------------------------------------------------------------------
(* utils/templating.py *)

Whitespace == {" "}
Quotes == {"'", "\""}

RECURSIVE LStrip(_, _)
LStrip(s, cs) == IF s # <<>> /\ Head(s) \in cs THEN LStrip(Tail(s), cs) ELSE s

RECURSIVE RStrip(_, _)
RStrip(s, cs) ==
    IF s # <<>> /\ s[Len(s)] \in cs THEN RStrip(SubSeq(s, 1, Len(s) - 1), cs) ELSE s

\* str.strip(): whitespace off both ends;  str.strip(chars): those characters
StripChars(s, cs) == RStrip(LStrip(s, cs), cs)
Strip(s) == StripChars(s, Whitespace)

\* the name a token sequence spells, when it is a single word
KeyOf(name) == IF Len(name) = 1 THEN name[1] ELSE None

\* first position j >= from where "}}" starts, 0 when there is none (the lazy
\* .*?, whose "." matches no newline)
RECURSIVE FindClose(_, _)
FindClose(t, from) ==
    IF from + 1 > Len(t) THEN 0
    ELSE IF t[from] = "}" /\ t[from + 1] = "}" THEN from
    ELSE IF t[from] = "\n" THEN 0
    ELSE FindClose(t, from + 1)

\* replace dropping the placeholder of an unknown name
replace_dropping_unknown(group, whole, variables) ==
    LET var_name == KeyOf(Strip(group))
    IN IF var_name \notin DOMAIN variables THEN <<>>
       ELSE Str(variables[var_name])

\* the inner function replace(match): group is match.group(1), whole is match.group(0)
replace(group, whole, variables) ==
    LET var_name == KeyOf(Strip(group))
    IN IF var_name \notin DOMAIN variables THEN whole
       ELSE Str(variables[var_name])

RECURSIVE RenderFrom(_, _, _)
RenderFrom(t, i, variables) ==
    IF i > Len(t) THEN <<>>
    ELSE LET j == IF i + 1 <= Len(t) /\ t[i] = "{" /\ t[i + 1] = "{"
                  THEN FindClose(t, i + 2) ELSE 0
         IN IF j = 0 THEN <<t[i]>> \o RenderFrom(t, i + 1, variables)
            ELSE replace(SubSeq(t, i + 2, j - 1), SubSeq(t, i, j + 1), variables)
                 \o RenderFrom(t, j + 2, variables)

render_template(template, variables) == RenderFrom(template, 1, variables)

-----------------------------------------------------------------------------
(* domain/models.py *)

NodeTypes == {"Prompt", "LLM", "If", "SetVar", "Output"}

\* ConversationState() with its field defaults
NewState == [messages |-> <<>>, variables |-> NoVars, last_node |-> None, done |-> FALSE]

\* ConversationState.model_dump(), as far as expressions can look into it
model_dump(st) ==
    [messages |-> ListVal,
     variables |-> st.variables,
     last_node |-> IF st.last_node = None THEN Null ELSE S(<<st.last_node>>),
     done |-> B(st.done)]

-----------------------------------------------------------------------------
(* JMESPath, the fragment of identifiers and sub-expressions a.b *)

\* expression.search(state_dict): a missing field yields null
search(expr, d) ==
    IF Len(expr) = 1 THEN
        IF expr[1] \in {"messages", "last_node", "done"} THEN d[expr[1]]
        ELSE IF expr[1] = "variables" THEN [t |-> "dict", v |-> <<"{..}">>]
        ELSE Null
    ELSE IF Len(expr) = 3 /\ expr[1] = "variables" /\ expr[2] = "." THEN
        IF expr[3] \in DOMAIN d.variables THEN d.variables[expr[3]] ELSE Null
    ELSE Null

-----------------------------------------------------------------------------
(* core/router.py *)

\* the pieces of condition.split("==")
RECURSIVE split(_, _)
split(s, sep) ==
    IF \E i \in 1..Len(s) : s[i] = sep
    THEN LET i == CHOOSE k \in 1..Len(s) : s[k] = sep /\ \A m \in 1..(k - 1) : s[m] # sep
         IN <<SubSeq(s, 1, i - 1)>> \o split(SubSeq(s, i + 1, Len(s)), sep)
    ELSE <<s>>

IsEquality(condition) == \E i \in 1..Len(condition) : condition[i] = "=="

\* create_router itself raises when "var, value = ..." cannot unpack two pieces
create_router_raises(condition) ==
    IsEquality(condition) /\ Len(split(condition, "==")) # 2

\* check_equality comparing the text of the value: 7 equals "7"
check_equality_by_text(condition, st) ==
    LET parts == split(condition, "==")
        var   == KeyOf(Strip(parts[1]))
        value == StripChars(Strip(parts[2]), Quotes)
    IN var \in DOMAIN st.variables /\ Str(st.variables[var]) = value

\* the inner function check_equality
check_equality(condition, st) ==
    LET parts == split(condition, "==")
        var   == KeyOf(Strip(parts[1]))
        value == StripChars(Strip(parts[2]), Quotes)
    IN var \in DOMAIN st.variables /\ st.variables[var] = S(value)

\* evaluate_expression coercing the result: null is false, any other value true
evaluate_expression_truthy(condition, st) ==
    LET result == search(condition, model_dump(st))
    IN IF result.t # "bool" THEN [raised |-> FALSE, value |-> result.t # "null"]
       ELSE [raised |-> FALSE, value |-> result = B(TRUE)]

\* the inner function evaluate_expression: [raised, value]
evaluate_expression(condition, st) ==
    LET result == search(condition, model_dump(st))
    IN IF result.t # "bool" THEN [raised |-> TRUE, value |-> FALSE]
       ELSE [raised |-> FALSE, value |-> result = B(TRUE)]

\* the predicate create_router(condition) returns, applied to st
create_router(condition, st) ==
    IF IsEquality(condition)
    THEN [raised |-> FALSE, value |-> check_equality(condition, st)]
    ELSE evaluate_expression(condition, st)

-----------------------------------------------------------------------------
(* domain/nodes: one executor per node type *)

Last(s) == s[Len(s)]

\* prompt_fn taking user_input from the last user message wherever it stands
prompt_fn_any_user_message(node, st) ==
    LET users == { i \in 1..Len(st.messages) : st.messages[i].role = "user" }
        variables == IF users # {}
                     THEN Put(st.variables, "user_input",
                              S(st.messages[CHOOSE i \in users : \A j \in users : j <= i].content))
                     ELSE st.variables
        text == render_template(node.config.text, variables)
    IN [st EXCEPT !.variables = variables,
                  !.messages = Append(@, Message("assistant", text)),
                  !.last_node = node.id]

\* PromptNode.to_graph_fn: prompt_fn
prompt_fn(node, st) ==
    LET variables == IF st.messages # <<>> /\ Last(st.messages).role = "user"
                     THEN Put(st.variables, "user_input", S(Last(st.messages).content))
                     ELSE st.variables
        text == render_template(node.config.text, variables)
    IN [st EXCEPT !.variables = variables,
                  !.messages = Append(@, Message("assistant", text)),
                  !.last_node = node.id]

\* output_fn without the assignment state.done = True
output_fn_leaving_done(node, st) ==
    LET variables == IF st.messages # <<>> /\ Last(st.messages).role = "user"
                     THEN Put(st.variables, "name", S(Last(st.messages).content))
                     ELSE st.variables
        text == render_template(node.config.text, variables)
    IN [st EXCEPT !.variables = variables,
                  !.messages = Append(@, Message("assistant", text)),
                  !.last_node = node.id]

\* output_fn without the copy of the user's message into variables["name"]
output_fn_without_name(node, st) ==
    LET text == render_template(node.config.text, st.variables)
    IN [st EXCEPT !.messages = Append(@, Message("assistant", text)),
                  !.last_node = node.id,
                  !.done = TRUE]

\* output_fn naming the user after the last user message wherever it stands
output_fn_naming_last_user(node, st) ==
    LET users == { i \in 1..Len(st.messages) : st.messages[i].role = "user" }
        variables == IF users # {}
                     THEN Put(st.variables, "name",
                              S(st.messages[CHOOSE i \in users : \A j \in users : j <= i].content))
                     ELSE st.variables
        text == render_template(node.config.text, variables)
    IN [st EXCEPT !.variables = variables,
                  !.messages = Append(@, Message("assistant", text)),
                  !.last_node = node.id,
                  !.done = TRUE]

\* OutputNode.to_graph_fn: output_fn
output_fn(node, st) ==
    LET variables == IF st.messages # <<>> /\ Last(st.messages).role = "user"
                     THEN Put(st.variables, "name", S(Last(st.messages).content))
                     ELSE st.variables
        text == render_template(node.config.text, variables)
    IN [st EXCEPT !.variables = variables,
                  !.messages = Append(@, Message("assistant", text)),
                  !.last_node = node.id,
                  !.done = TRUE]

\* if_fn returning variables that hold the chosen target only
if_fn_replacing_variables(node, st, result) ==
    LET next_node == IF result THEN node.config.true_target ELSE node.config.false_target
    IN [st EXCEPT !.last_node = node.id,
                  !.variables = Put(NoVars, "_next", S(<<next_node>>))]

\* IfNode.to_graph_fn: if_fn, result being router(state)
if_fn(node, st, result) ==
    LET next_node == IF result THEN node.config.true_target ELSE node.config.false_target
    IN [st EXCEPT !.last_node = node.id,
                  !.variables = Put(@, "_next", S(<<next_node>>))]

\* SetVarNode.to_graph_fn: the loop of setvar_fn over expressions.items()
RECURSIVE setvar_loop(_, _, _)
setvar_loop(expressions, state_dict, variables) ==
    IF expressions = <<>> THEN variables
    ELSE LET e == Head(expressions)
             value == IF e.compiled THEN search(e.expr, state_dict) ELSE e.static
         IN setvar_loop(Tail(expressions), state_dict, Put(variables, e.var_name, value))

\* setvar_fn assigning only the names that hold no value yet
setvar_fn_keeping_existing(node, st) ==
    LET state_dict == model_dump(st)
        assigned == setvar_loop(node.config.variables, state_dict, st.variables)
    IN [st EXCEPT !.variables = [k \in DOMAIN assigned |->
                                    IF k \in DOMAIN st.variables THEN st.variables[k]
                                    ELSE assigned[k]],
                  !.last_node = node.id]

\* setvar_fn evaluating the expressions against the state that holds the
\* values the node's literal entries assign
setvar_fn_seeing_assigned(node, st) ==
    LET assigned == setvar_loop(node.config.variables, model_dump(st), st.variables)
        state_dict == model_dump([st EXCEPT !.variables = assigned])
    IN [st EXCEPT !.variables = setvar_loop(node.config.variables, state_dict, @),
                  !.last_node = node.id]

\* SetVarNode.to_graph_fn: setvar_fn
setvar_fn(node, st) ==
    LET state_dict == model_dump(st)
    IN [st EXCEPT !.variables = setvar_loop(node.config.variables, state_dict, @),
                  !.last_node = node.id]

\* the search taking the last message, whatever its role
last_message_of_any_role(st) == Len(st.messages)

\* LLMNode.to_graph_fn: the search for the last user message (0: none)
last_user_message(st) ==
    IF \E i \in 1..Len(st.messages) : st.messages[i].role = "user"
    THEN CHOOSE i \in 1..Len(st.messages) :
             /\ st.messages[i].role = "user"
             /\ \A j \in (i + 1)..Len(st.messages) : st.messages[j].role # "user"
    ELSE 0

\* LLMNode.to_graph_fn: the prompt handed to client.complete
llm_prompt(node, st) ==
    render_template(node.config.prompt,
        Put(st.variables, "user_input", S(st.messages[last_user_message(st)].content)))

\* the dict `extracted` holding every field of the result, listed or not
extracted_of_all_fields(node, result) == result.fields

\* the dict `extracted`: the fields of config["extract"] present in result
extracted_of(node, result) ==
    LET keys == {node.config.extract[i] : i \in 1..Len(node.config.extract)}
               \cap DOMAIN result.fields
    IN [k \in keys |-> result.fields[k]]

\* assignment in place of dict.update: the dict becomes e
update_replacing(d, e) == e

\* dict.update
update(d, e) == [k \in (DOMAIN d) \cup (DOMAIN e) |-> IF k \in DOMAIN e THEN e[k] ELSE d[k]]

\* LLMNode.to_graph_fn: llm_fn after client.complete returned `result`
llm_fn(node, st, result) ==
    IF result.kind = "dict" THEN
        LET extracted == extracted_of(node, result)
        IN [st EXCEPT !.variables = update(@, extracted),
                      !.messages = Append(@, Message("assistant",
                            IF "response" \in DOMAIN extracted
                            THEN Str(extracted["response"]) ELSE result.repr)),
                      !.last_node = node.id]
    ELSE [st EXCEPT !.last_node = node.id]

-----------------------------------------------------------------------------
(* core/engine.py: graph resolution *)

\* "no node": what the lookups return for None
NoNode == [id |-> None, type |-> "None", next |-> None]

IsNode(n) == n.id # None

\* WorkflowEngine._find_node_by_id
find_node_by_id(w, node_id) ==
    IF \E i \in 1..Len(w.nodes) : w.nodes[i].id = node_id
    THEN w.nodes[CHOOSE i \in 1..Len(w.nodes) :
                    /\ w.nodes[i].id = node_id
                    /\ \A j \in 1..(i - 1) : w.nodes[j].id # node_id]
    ELSE NoNode

\* the first edge from node_id that carries no condition: conditional edges skipped
first_unconditional_edge_from(w, node_id) ==
    IF \E i \in 1..Len(w.edges) : w.edges[i].source = node_id /\ w.edges[i].condition = <<>>
    THEN CHOOSE i \in 1..Len(w.edges) :
             /\ w.edges[i].source = node_id /\ w.edges[i].condition = <<>>
             /\ \A j \in 1..(i - 1) :
                   ~(w.edges[j].source = node_id /\ w.edges[j].condition = <<>>)
    ELSE 0

\* the first edge whose source is node_id, 0 when there is none
first_edge_from(w, node_id) ==
    IF \E i \in 1..Len(w.edges) : w.edges[i].source = node_id
    THEN CHOOSE i \in 1..Len(w.edges) :
             /\ w.edges[i].source = node_id
             /\ \A j \in 1..(i - 1) : w.edges[j].source # node_id
    ELSE 0

\* WorkflowEngine._find_next_node_from_edges
find_next_node_from_edges(w, current_node_id) ==
    IF w.edges = <<>> THEN NoNode
    ELSE IF first_edge_from(w, current_node_id) = 0 THEN NoNode
    ELSE find_node_by_id(w, w.edges[first_edge_from(w, current_node_id)].target)

\* WorkflowEngine._find_next_node_from_next_prop
find_next_node_from_next_prop(w, current_node_id) ==
    LET current_node == find_node_by_id(w, current_node_id)
    IN IF IsNode(current_node) /\ current_node.next # None
       THEN find_node_by_id(w, current_node.next)
       ELSE NoNode

\* the resolution wrapping around: without successor, back to the first node
find_next_node_wrapping(w, node_id) ==
    LET via_edges == find_next_node_from_edges(w, node_id)
        via_next == find_next_node_from_next_prop(w, node_id)
    IN IF IsNode(via_edges) THEN via_edges
       ELSE IF IsNode(via_next) THEN via_next
       ELSE w.nodes[1]

\* the resolution with the two strategies swapped: next property first
find_next_node_next_first(w, node_id) ==
    LET via_next == find_next_node_from_next_prop(w, node_id)
    IN IF via_next.id # None THEN via_next
       ELSE find_next_node_from_edges(w, node_id)

\* the resolution that, without successor, resolves to the node itself
find_next_node_repeating(w, node_id) ==
    LET via_edges == find_next_node_from_edges(w, node_id)
        via_next == find_next_node_from_next_prop(w, node_id)
    IN IF IsNode(via_edges) THEN via_edges
       ELSE IF IsNode(via_next) THEN via_next
       ELSE find_node_by_id(w, node_id)

\* the resolution start and step use: edges first, then the next property
find_next_node(w, node_id) ==
    LET via_edges == find_next_node_from_edges(w, node_id)
    IN IF IsNode(via_edges) THEN via_edges
       ELSE find_next_node_from_next_prop(w, node_id)

\* WorkflowEngine._has_next_node
has_next_node(w, node) ==
    IF w.edges # <<>>
    THEN \E i \in 1..Len(w.edges) : w.edges[i].source = node.id
    ELSE node.next # None

-----------------------------------------------------------------------------
(* core/engine.py: the step driver *)

\* One call in progress: the state object, the nodes whose executor was
\* entered, whether an exception is propagating, and the prompts handed to
\* the text-generation backend so far, each with the answer it got.
Ctx(st) == [st |-> st, executed |-> <<>>, raised |-> FALSE, backend |-> <<>>]

\* a driver that swallows the backend's error: the LLM node leaves the state
\* alone and the call goes on
run_node_swallowing(node, c, results) ==
    IF c.raised THEN c
    ELSE LET st == c.st
             c1 == [c EXCEPT !.executed = Append(@, node.id)]
         IN CASE node.type = "Prompt" -> [c1 EXCEPT !.st = prompt_fn(node, st)]
              [] node.type = "Output" -> [c1 EXCEPT !.st = output_fn(node, st)]
              [] node.type = "SetVar" -> [c1 EXCEPT !.st = setvar_fn(node, st)]
              [] node.type = "If" ->
                    LET r == create_router(node.config.condition, st)
                    IN IF r.raised THEN [c1 EXCEPT !.raised = TRUE]
                       ELSE [c1 EXCEPT !.st = if_fn(node, st, r.value)]
              [] node.type = "LLM" ->
                    IF last_user_message(st) = 0 THEN [c1 EXCEPT !.raised = TRUE]
                    ELSE LET result == results[Len(c.backend) + 1]
                             c2 == [c1 EXCEPT !.backend = Append(@,
                                        [prompt |-> llm_prompt(node, st), result |-> result])]
                         IN IF result.kind = "fail" THEN c2
                            ELSE [c2 EXCEPT !.st = llm_fn(node, st, result)]

\* fn = NodeRegistry.create(node).to_graph_fn(); result = fn(state)
\* `results` are the backend's answers to this call's invocations, in order.
run_node(node, c, results) ==
    IF c.raised THEN c
    ELSE LET st == c.st
             c1 == [c EXCEPT !.executed = Append(@, node.id)]
         IN CASE node.type = "Prompt" -> [c1 EXCEPT !.st = prompt_fn(node, st)]
              [] node.type = "Output" -> [c1 EXCEPT !.st = output_fn(node, st)]
              [] node.type = "SetVar" -> [c1 EXCEPT !.st = setvar_fn(node, st)]
              [] node.type = "If" ->
                    LET r == create_router(node.config.condition, st)
                    IN IF r.raised THEN [c1 EXCEPT !.raised = TRUE]
                       ELSE [c1 EXCEPT !.st = if_fn(node, st, r.value)]
              [] node.type = "LLM" ->
                    IF last_user_message(st) = 0 THEN [c1 EXCEPT !.raised = TRUE]
                    ELSE LET result == results[Len(c.backend) + 1]
                             c2 == [c1 EXCEPT !.backend = Append(@,
                                        [prompt |-> llm_prompt(node, st), result |-> result])]
                         IN IF result.kind = "fail" THEN [c2 EXCEPT !.raised = TRUE]
                            ELSE [c2 EXCEPT !.st = llm_fn(node, st, result)]

\* the update that keeps a done flag already set instead of overwriting it
set_result_keeping_done(c, node, done) ==
    IF c.raised THEN c
    ELSE [c EXCEPT !.st.last_node = node.id, !.st.done = @ \/ done]

\* "# Update state": result.last_node = ...; result.done = ...
set_result(c, node, done) ==
    IF c.raised THEN c
    ELSE [c EXCEPT !.st.last_node = node.id, !.st.done = done]

\* a user message that replaces a trailing user message instead of following it
append_user_replacing(c, text) ==
    IF c.raised THEN c
    ELSE IF c.st.messages # <<>> /\ Last(c.st.messages).role = "user"
    THEN [c EXCEPT !.st.messages[Len(c.st.messages)] = Message("user", text)]
    ELSE [c EXCEPT !.st.messages = Append(@, Message("user", text))]

\* state.messages.append(Message(role="user", content=text))
append_user(c, text) ==
    IF c.raised THEN c
    ELSE [c EXCEPT !.st.messages = Append(@, Message("user", text))]

\* a chain that goes on after the Output node: a Prompt node that follows it is
\* run in the same call
chain_output_following(w, c, node, results) ==
    LET nxt == find_next_node(w, node.id)
    IN IF IsNode(nxt) /\ nxt.type = "Output"
       THEN LET c1 == set_result(run_node(nxt, c, results), nxt, ~has_next_node(w, nxt))
                after == find_next_node(w, nxt.id)
            IN IF IsNode(after) /\ after.type = "Prompt"
               THEN set_result(run_node(after, c1, results), after, ~has_next_node(w, after))
               ELSE c1
       ELSE c

\* a chain that runs the Output node but reports the node before it as the last
chain_output_keeping_last_node(w, c, node, results) ==
    LET nxt == find_next_node(w, node.id)
    IN IF IsNode(nxt) /\ nxt.type = "Output"
       THEN LET c1 == set_result(run_node(nxt, c, results), nxt, ~has_next_node(w, nxt))
            IN IF c1.raised THEN c1 ELSE [c1 EXCEPT !.st.last_node = node.id]
       ELSE c

\* "If we have an output node next, run it too", shared shape of start and step
chain_output(w, c, node, results) ==
    LET nxt == find_next_node(w, node.id)
    IN IF IsNode(nxt) /\ nxt.type = "Output"
       THEN set_result(run_node(nxt, c, results), nxt, ~has_next_node(w, nxt))
       ELSE c

\* the check of input_text dropped: start chains whenever the result is not done
start_chains_without_input(input_text, st) == ~st.done

\* start: "if input_text and not result.done"
start_chains(input_text, st) == input_text # <<>> /\ ~st.done

\* step: "if next_node.type == 'Prompt'"
chains_after_prompt(node) == node.type = "Prompt"

\* chaining generalised to the nodes that need no new input
chains_after_any(node, st) == node.type \in {"LLM", "If", "SetVar"} /\ ~st.done

\* step: "elif next_node.type == 'LLM' and not result.done"
chains_after_llm(node, st) == node.type = "LLM" /\ ~st.done

\* WorkflowEngine.start; input_text <<>> stands for None and for ""
start(w, input_text, results) ==
    IF w.nodes = <<>> THEN Ctx(NewState)
    ELSE
    LET initial_state == [NewState EXCEPT
            !.variables = w.variables,
            !.messages = IF input_text # <<>> THEN <<Message("user", input_text)>> ELSE <<>>]
        first_node == w.nodes[1]
        c1 == set_result(run_node(first_node, Ctx(initial_state), results), first_node, FALSE)
    IN IF c1.raised \/ ~start_chains(input_text, c1.st) THEN c1
       ELSE
       LET next_node == find_next_node(w, first_node.id)
       IN IF ~(IsNode(next_node) /\ next_node.type = "LLM") THEN c1
          ELSE
          LET c2 == set_result(run_node(next_node, append_user(c1, input_text), results),
                               next_node, ~has_next_node(w, next_node))
          IN IF c2.raised \/ c2.st.done THEN c2
             ELSE chain_output(w, c2, next_node, results)

\* WorkflowEngine.step
step(w, st, user_text, results) ==
    IF w.nodes = <<>> THEN Ctx(st)
    ELSE
    LET next_node == IF st.last_node = None THEN w.nodes[1]
                     ELSE find_next_node(w, st.last_node)
    IN IF ~IsNode(next_node) THEN [Ctx(st) EXCEPT !.st.done = TRUE]
       ELSE
       LET c1 == set_result(run_node(next_node, append_user(Ctx(st), user_text), results),
                            next_node, ~has_next_node(w, next_node))
       IN IF c1.raised THEN c1
          ELSE IF chains_after_prompt(next_node) THEN
              LET next_next_node == find_next_node(w, next_node.id)
              IN IF ~(IsNode(next_next_node) /\ next_next_node.type = "LLM") THEN c1
                 ELSE
                 LET c2 == set_result(run_node(next_next_node, c1, results),
                                      next_next_node, ~has_next_node(w, next_next_node))
                 IN IF c2.raised \/ c2.st.done THEN c2
                    ELSE chain_output(w, c2, next_next_node, results)
          ELSE IF chains_after_llm(next_node, c1.st) THEN
              chain_output(w, c1, next_node, results)
          ELSE c1

-----------------------------------------------------------------------------
(* The workflows, user texts and backend answers the model ranges over *)

NodeIds == <<"n1", "n2", "n3">>          \* node ids, in declaration order
Dangling == "zz"                          \* an id that names no node

\* Node.config by type: the keys of the node's type are set, the others are
\* left empty; the node's position picks the condition of an If node
ConfigOf(type, i) ==
    [text |-> CASE type = "Output" ->
                     <<"Thanks", ",", " ", "{", "{", " ", "name", " ", "}", "}", "!">>
                [] type = "Prompt" ->
                     <<"Hi", " ", "{", "{", "name", "}", "}", " ",
                       "{", "{", "user_input", "}", "}", "?">>
                [] OTHER -> <<>>,
     prompt |-> IF type = "LLM"
                THEN <<"Extract", ":", " ", "{", "{", "user_input", "}", "}">> ELSE <<>>,
     extract |-> IF type = "LLM" THEN <<"name", "response">> ELSE <<>>,
     condition |-> CASE type = "If" /\ i = 1 -> <<"name", " ", "==", " ", "'", "Alice", "'">>
                     [] type = "If" /\ i = 2 -> <<"done">>
                     [] type = "If" /\ i = 3 -> <<"variables", ".", "name">>
                     [] OTHER -> <<>>,
     true_target |-> IF type = "If" THEN "n3" ELSE None,
     false_target |-> IF type = "If" THEN "n1" ELSE None,
     variables |-> IF type = "SetVar"
                   THEN << [var_name |-> "greeted", compiled |-> FALSE,
                            expr |-> <<>>, static |-> B(TRUE)],
                           [var_name |-> "who", compiled |-> TRUE,
                            expr |-> <<"variables", ".", "name">>, static |-> Null] >>
                   ELSE <<>>]

Node(i, type, next) ==
    [id |-> NodeIds[i], type |-> type, next |-> next, config |-> ConfigOf(type, i)]

Edge(source, target, condition) ==
    [source |-> source, target |-> target, condition |-> condition]

CandidateEdges ==
    { Edge("n1", "n2", <<"name", " ", "==", " ", "'", "Bob", "'">>),
      Edge("n1", "n3", <<>>),
      Edge("n1", Dangling, <<>>),
      Edge("n2", "n3", <<>>) }

\* edge lists: up to MaxEdges distinct candidate edges, in any order
EdgeLists ==
    UNION { { e \in [1..n -> CandidateEdges] : \A i, j \in 1..n : i # j => e[i] # e[j] }
            : n \in 0..MaxEdges }

Workflow(ty, nx, es, dv) ==
    [nodes |-> [i \in 1..3 |-> Node(i, ty[i], nx[i])], edges |-> es, variables |-> dv]

DeclaredVariables == { NoVars, [name |-> S(<<"Zed">>)] }

\* workflows linked one way only, by next pointers or by edges: chains of one,
\* two and three nodes, a cycle and a chain ending in a dangling pointer
PlainLinks ==
    { [next |-> <<None, None, None>>, edges |-> <<>>, reach |-> 1],
      [next |-> <<"n2", None, None>>, edges |-> <<>>, reach |-> 2],
      [next |-> <<"n2", "n3", None>>, edges |-> <<>>, reach |-> 3],
      [next |-> <<"n2", "n3", "n1">>, edges |-> <<>>, reach |-> 3],
      [next |-> <<"n2", "n3", Dangling>>, edges |-> <<>>, reach |-> 3],
      [next |-> <<None, None, None>>,
       edges |-> <<Edge("n1", "n2", <<>>), Edge("n2", "n3", <<>>)>>, reach |-> 3] }

\* every assignment of types to the nodes a plain workflow can reach
PlainTypes(reach) ==
    { t \in [1..3 -> NodeTypes] : \A i \in 1..3 : i > reach => t[i] = "Prompt" }

PlainWorkflows ==
    UNION { { Workflow(ty, l.next, l.edges, dv) :
                ty \in PlainTypes(l.reach), dv \in DeclaredVariables }
            : l \in PlainLinks }

MixedTypes ==
    { <<"Prompt", "LLM", "Output">>, <<"LLM", "Output", "Prompt">>,
      <<"Output", "Prompt", "LLM">>, <<"SetVar", "If", "Output">> }

MixedNexts ==
    { nx \in [1..3 -> {None, "n2", "n3"}] :
        nx[1] \in {None, "n2", "n3"} /\ nx[2] \in {None, "n3"} /\ nx[3] = None }

\* workflows that hold an edge list and next pointers at once
MixedWorkflows ==
    { Workflow(ty, nx, es, NoVars) : ty \in MixedTypes, nx \in MixedNexts, es \in EdgeLists }

Workflows == PlainWorkflows \cup MixedWorkflows

UserTexts == { <<"Alice">>, <<"Bob">> }
StartInputs == { <<>>, <<"Alice">> }

LLMResults ==
    { [kind |-> "fail", fields |-> NoVars, repr |-> <<>>],
      [kind |-> "other", fields |-> NoVars, repr |-> <<"[]">>],
      [kind |-> "dict",
       fields |-> [name |-> S(<<"Carol">>), response |-> S(<<"Hello", " ", "Carol">>)],
       repr |-> <<"{name,response}">>],
      [kind |-> "dict",
       fields |-> [name |-> S(<<"Carol">>), age |-> [t |-> "int", v |-> <<"7">>]],
       repr |-> <<"{name,age}">>] }

-----------------------------------------------------------------------------
(* The run: one workflow, one caller holding the state object *)

NoCall == [op |-> "none", input |-> <<>>, pre |-> NewState,
           executed |-> <<>>, raised |-> FALSE, backend |-> <<>>]

\* the parts of the state that a specification does not use
NoHeap == <<>>
NoRuns == <<>>
NoDb == <<>>
NoRequests == <<>>

Observed(op, input, pre, c) ==
    [op |-> op, input |-> input, pre |-> pre,
     executed |-> c.executed, raised |-> c.raised, backend |-> c.backend]

Init ==
    /\ wf \in Workflows
    /\ state = NewState
    /\ phase = "new"
    /\ call = NoCall
    /\ steps = 0
    /\ heap = NoHeap
    /\ runs = NoRuns
    /\ db = NoDb
    /\ inflight = NoRequests

\* state = engine.start(input_text)
Start ==
    /\ phase = "new"
    /\ \E input_text \in StartInputs, r1 \in LLMResults, r2 \in LLMResults :
        LET c == start(wf, input_text, <<r1, r2>>)
        IN /\ state' = IF c.raised THEN state ELSE c.st
           /\ phase' = IF c.raised THEN "failed" ELSE "running"
           /\ call' = Observed("start", input_text, state, c)
    /\ UNCHANGED <<wf, steps, heap, runs, db, inflight>>

\* the caller's state object after a step call on a copy of it: a call that
\* raises leaves the object as it was
caller_state_of_a_copy(st, c) == IF c.raised THEN st ELSE c.st

\* the caller's state object after step(state, user_text): step appends to and
\* assigns into the object it is given, and the executors return that object,
\* so what the call did before it returned or raised is in it
caller_state(st, c) == c.st

\* state = engine.step(state, user_text); without a start it acts on ConversationState()
Step ==
    /\ phase \in {"new", "running"}
    /\ steps < MaxSteps
    /\ \E user_text \in UserTexts, r \in LLMResults :
        LET c == step(wf, state, user_text, <<r>>)
        IN /\ state' = caller_state(state, c)
           /\ call' = Observed("step", user_text, state, c)
    /\ phase' = "running"
    /\ steps' = steps + 1
    /\ UNCHANGED <<wf, heap, runs, db, inflight>>

Next == Start \/ Step

Spec == Init /\ [][Next]_vars

-----------------------------------------------------------------------------
(* One node executor applied to a state the caller supplies:                *)
(* NodeRegistry.create(node).to_graph_fn()(state), outside start and step   *)

\* messages a supplied state can hold
ExecMessages ==
    { Message("user", <<"Alice">>), Message("user", <<"Bob">>),
      Message("assistant", <<"Hi">>) }

\* message histories of up to MaxMessages messages
ExecHistories == UNION { [1..n -> ExecMessages] : n \in 0..MaxMessages }

\* variables a supplied state can hold
ExecVariables ==
    { NoVars,
      [name |-> S(<<"Zed">>)],
      [name |-> S(<<"Alice">>), user_input |-> S(<<"old">>), who |-> S(<<"me">>)],
      [name |-> [t |-> "int", v |-> <<"7">>], _next |-> S(<<"n2">>)],
      [name |-> S(<<"7">>)],
      [name |-> B(TRUE), greeted |-> B(FALSE)] }

ExecStates ==
    { [messages |-> m, variables |-> v, last_node |-> l, done |-> d] :
        m \in ExecHistories, v \in ExecVariables, l \in {None, "n3"}, d \in BOOLEAN }

\* conditions "name == literal" as written: the literal quoted with double
\* quotes and set in whitespace, bare, and on a variable no state holds
EqualityConditions ==
    { <<" ", "name", "==", "\"", "7", "\"", " ">>,
      <<"name", " ", "==", " ", "7">>,
      <<"missing", " ", "==", " ", "'", "Alice", "'">> }

\* conditions without "==": expressions over the serialized state
PathConditions ==
    { <<"last_node">>, <<"messages">>, <<"variables">>, <<"unknown">>,
      <<"variables", ".", "greeted">> }

\* an If node with the given condition
IfNode(condition) == [Node(1, "If", None) EXCEPT !.config.condition = condition]

\* the pieces templates are written from: literal text, and placeholders with
\* the name they spell (None when the braces hold no single word)
Lit(raw) == [hole |-> FALSE, raw |-> raw, name |-> None]
Hole(raw, name) == [hole |-> TRUE, raw |-> raw, name |-> name]

TemplatePieces ==
    { << Lit(<<"Hi", " ">>), Hole(<<"{", "{", "name", "}", "}">>, "name"), Lit(<<"!">>) >>,
      << Hole(<<"{", "{", " ", "name", " ", " ", "}", "}">>, "name"),
         Hole(<<"{", "{", "missing", "}", "}">>, "missing") >>,
      << Lit(<<"a">>), Hole(<<"{", "{", "}", "}">>, None),
         Hole(<<"{", "{", "first", " ", "name", "}", "}">>, None) >>,
      << Lit(<<"{", "{", " ", "name">>) >>,
      << Lit(<<"{", "name", "}", "}", " ">>), Hole(<<"{", "{", "who", "}", "}">>, "who") >>,
      << Hole(<<"{", "{", "user_input", "}", "}">>, "user_input"), Lit(<<" ">>),
         Hole(<<"{", "{", "user_input", "}", "}">>, "user_input") >>,
      << Hole(<<"{", "{", "x", " ", "{", "{", "name", "}", "}">>, None), Lit(<<"}", "}">>) >>,
      << Hole(<<"{", "{", "{", "name", "}", "}">>, None), Lit(<<"}">>) >>,
      << Lit(<<"{", "{", "\n", "x", " ">>), Hole(<<"{", "{", "name", "}", "}">>, "name") >> }

\* the text of a template written from pieces
RECURSIVE TextOf(_)
TextOf(pieces) == IF pieces = <<>> THEN <<>> ELSE Head(pieces).raw \o TextOf(Tail(pieces))

\* a Prompt node with the given text
TemplateNode(text) == [Node(1, "Prompt", None) EXCEPT !.config.text = text]

\* a SetVar node whose second entry reads the name its first entry assigns
SetVarNode ==
    [Node(1, "SetVar", None) EXCEPT !.config.variables =
        << [var_name |-> "greeted", compiled |-> FALSE, expr |-> <<>>, static |-> B(TRUE)],
           [var_name |-> "seen", compiled |-> TRUE,
            expr |-> <<"variables", ".", "greeted">>, static |-> Null] >>]

\* a workflow of the single node under test
ExecWorkflows ==
    { [nodes |-> <<n>>, edges |-> <<>>, variables |-> NoVars] :
        n \in { Node(1, "Prompt", None), Node(2, "Output", None), Node(3, "LLM", None),
                Node(1, "SetVar", None),
                Node(1, "If", None), Node(2, "If", None), Node(3, "If", None) }
              \cup { IfNode(condition) : condition \in EqualityConditions \cup PathConditions }
              \cup { TemplateNode(TextOf(pieces)) : pieces \in TemplatePieces }
              \cup { SetVarNode } }

ExecInit ==
    /\ wf \in ExecWorkflows
    /\ state \in ExecStates
    /\ phase = "exec"
    /\ call = NoCall
    /\ steps = 0
    /\ heap = NoHeap
    /\ runs = NoRuns
    /\ db = NoDb
    /\ inflight = NoRequests

\* fn(state) for the executor fn of the workflow's node
Execute ==
    /\ phase = "exec"
    /\ steps < MaxSteps
    /\ \E r \in LLMResults :
        LET c == run_node(wf.nodes[1], Ctx(state), <<r>>)
        IN /\ state' = c.st
           /\ call' = Observed("exec", <<>>, state, c)
    /\ steps' = steps + 1
    /\ UNCHANGED <<wf, phase, heap, runs, db, inflight>>

\* PromptNode(node).to_graph_fn()(state)
ExecPrompt ==
    /\ wf.nodes[1].type = "Prompt"
    /\ Execute

\* OutputNode(node).to_graph_fn()(state)
ExecOutput ==
    /\ wf.nodes[1].type = "Output"
    /\ Execute

\* IfNode(node).to_graph_fn()(state)
ExecIf ==
    /\ wf.nodes[1].type = "If"
    /\ Execute

\* SetVarNode(node).to_graph_fn()(state)
ExecSetVar ==
    /\ wf.nodes[1].type = "SetVar"
    /\ Execute

\* LLMNode(node).to_graph_fn()(state)
ExecLLM ==
    /\ wf.nodes[1].type = "LLM"
    /\ Execute

ExecNext == ExecPrompt \/ ExecOutput \/ ExecIf \/ ExecSetVar \/ ExecLLM

ExecSpec == ExecInit /\ [][ExecNext]_vars

-----------------------------------------------------------------------------
(* Several runs of one engine.  A dict is an object: `heap` maps the         *)
(* identity of each dict to its content, a state object holds the identity  *)
(* of its variables dict, and the executors write into that dict in place.  *)

RunIds == {"a", "b"}

\* the identity of the dict Workflow.variables
Declared == "declared"

\* the workflows several runs are made on
RunsWorkflows ==
    { Workflow(ty, <<"n2", "n3", None>>, <<>>, dv) :
        ty \in { <<"Prompt", "LLM", "Output">>, <<"Output", "Prompt", "LLM">>,
                 <<"SetVar", "If", "Output">>, <<"Prompt", "Output", "SetVar">> },
        dv \in DeclaredVariables }

\* a run nobody started
NoRun == [started |-> FALSE, failed |-> FALSE, n |-> 0, st |-> NewState, alone |-> NewState]

\* the state object with the content of its variables dict in place of the dict
Deref(h, st) == [st EXCEPT !.variables = h[st.variables]]

\* no copy: the state gets the dict Workflow.variables itself
not_copied(source, fresh) == source

\* the dict start hands for self.workflow.variables.copy(): a fresh dict
copied(source, fresh) == fresh

RunsInit ==
    /\ wf \in RunsWorkflows
    /\ state = NewState
    /\ phase = "runs"
    /\ call = NoCall
    /\ steps = 0
    /\ heap = [a \in RunIds \cup {Declared} |-> IF a = Declared THEN wf.variables ELSE NoVars]
    /\ runs = [r \in RunIds |-> NoRun]
    /\ db = NoDb
    /\ inflight = NoRequests

\* state_r = engine.start(input_text), the caller of run r keeping the result;
\* `alone` is the same call made on an engine that serves this run only
RunStart(r) ==
    /\ phase = "runs"
    /\ ~runs[r].started
    /\ \E input_text \in StartInputs, r1 \in LLMResults, r2 \in LLMResults :
        LET dict == copied(Declared, r)
            h1 == [heap EXCEPT ![dict] = heap[Declared]]
            c == start([wf EXCEPT !.variables = h1[dict]], input_text, <<r1, r2>>)
            ref == start(wf, input_text, <<r1, r2>>)
        IN /\ heap' = [h1 EXCEPT ![dict] = c.st.variables]
           /\ runs' = [runs EXCEPT ![r] =
                         [started |-> TRUE, failed |-> c.raised, n |-> 0,
                          st |-> [c.st EXCEPT !.variables = dict],
                          alone |-> ref.st]]
    /\ UNCHANGED <<wf, state, phase, call, steps, db, inflight>>

\* state_r = engine.step(state_r, user_text)
RunStep(r) ==
    /\ phase = "runs"
    /\ runs[r].started /\ ~runs[r].failed
    /\ runs[r].n < MaxSteps
    /\ \E user_text \in UserTexts, res \in LLMResults :
        LET dict == runs[r].st.variables
            c == step(wf, Deref(heap, runs[r].st), user_text, <<res>>)
            ref == step(wf, runs[r].alone, user_text, <<res>>)
        IN /\ heap' = [heap EXCEPT ![dict] = c.st.variables]
           /\ runs' = [runs EXCEPT ![r] =
                         [@ EXCEPT !.failed = c.raised, !.n = @ + 1,
                                   !.st = [c.st EXCEPT !.variables = dict],
                                   !.alone = ref.st]]
    /\ UNCHANGED <<wf, state, phase, call, steps, db, inflight>>

RunsNext == \E r \in RunIds : RunStart(r) \/ RunStep(r)

RunsSpec == RunsInit /\ [][RunsNext]_vars

-----------------------------------------------------------------------------
(* services/run_service.py: RunService over the persisted run and its step  *)
(* records.  A step_run call reads and writes the store in four accesses;   *)
(* calls made by different workers interleave between the accesses.         *)

Requests == 1..MaxCalls

\* the workflows runs are persisted for
ServiceWorkflows ==
    { Workflow(ty, <<"n2", "n3", None>>, <<>>, dv) :
        ty \in { <<"Prompt", "LLM", "Output">>, <<"Prompt", "Output", "Prompt">>,
                 <<"SetVar", "If", "Output">>, <<"Prompt", "Prompt", "LLM">> },
        dv \in DeclaredVariables }

\* no run stored yet
EmptyDb == [exists |-> FALSE, status |-> "none", variables |-> NoVars, steps |-> <<>>]

\* a request that has not been made
Idle == [pc |-> "idle", user_text |-> <<>>, variables |-> NoVars, steps |-> <<>>,
         state |-> NewState]

\* step_run: "Create state from run and steps"
RECURSIVE rebuilt_messages(_)
rebuilt_messages(records) ==
    IF records = <<>> THEN <<>>
    ELSE Head(records).input_messages \o Head(records).output_messages
         \o rebuilt_messages(Tail(records))

rebuild_state(variables, records) ==
    [messages |-> rebuilt_messages(records),
     variables |-> variables,
     last_node |-> IF records # <<>> THEN Last(records).node_id ELSE None,
     done |-> FALSE]

\* a step record that keeps no snapshot of the variables
step_record_without_snapshot(st) ==
    [node_id |-> IF st.last_node # None THEN st.last_node ELSE "unknown",
     input_messages |-> IF Len(st.messages) > 1
                        THEN SubSeq(st.messages, Len(st.messages) - 1, Len(st.messages))
                        ELSE st.messages,
     output_messages |-> IF st.messages # <<>> THEN <<Last(st.messages)>> ELSE <<>>,
     variables_snapshot |-> NoVars]

\* step_run: "Create step record"
step_record(st) ==
    [node_id |-> IF st.last_node # None THEN st.last_node ELSE "unknown",
     input_messages |-> IF Len(st.messages) > 1
                        THEN SubSeq(st.messages, Len(st.messages) - 1, Len(st.messages))
                        ELSE st.messages,
     output_messages |-> IF st.messages # <<>> THEN <<Last(st.messages)>> ELSE <<>>,
     variables_snapshot |-> st.variables]

\* the update merging the variables into the stored ones instead of replacing them
run_update_merging(stored, variables) == [stored EXCEPT !.variables = update(@, variables)]

\* runs_repo.update(run) after "run.variables = state.variables"
run_update(stored, variables) == [stored EXCEPT !.variables = variables]

\* no other step_run call of this run is between its first load and its end
AloneInFlight(q) ==
    \A p \in Requests \ {q} : inflight[p].pc \in {"idle", "done", "failed"}

ServiceInit ==
    /\ wf \in ServiceWorkflows
    /\ state = NewState
    /\ phase \in {"one in flight", "unserialized"}
    /\ call = NoCall
    /\ steps = 0
    /\ heap = NoHeap
    /\ runs = NoRuns
    /\ db = EmptyDb
    /\ inflight = [q \in Requests |-> Idle]

\* RunService.start_run
StartRun ==
    /\ ~db.exists
    /\ db.status = "none"
    /\ \E input_text \in StartInputs, r1 \in LLMResults, r2 \in LLMResults :
        LET c == start(wf, input_text, <<r1, r2>>)
        IN /\ db' = IF c.raised THEN [db EXCEPT !.status = "not created"]
                    ELSE [exists |-> TRUE, status |-> "running",
                          variables |-> c.st.variables, steps |-> <<>>]
           /\ state' = IF c.raised THEN state ELSE c.st
           /\ call' = Observed("start", input_text, state, c)
    /\ UNCHANGED <<wf, phase, steps, heap, runs, inflight>>

\* step_run: run = runs_repo.get(run_id), and the check of its status
LoadRun(q) ==
    /\ inflight[q].pc = "idle"
    /\ db.exists /\ db.status = "running"
    /\ phase = "one in flight" => AloneInFlight(q)
    /\ \E user_text \in UserTexts :
        inflight' = [inflight EXCEPT ![q] =
                        [@ EXCEPT !.pc = "run", !.user_text = user_text,
                                  !.variables = db.variables]]
    /\ UNCHANGED <<wf, state, phase, call, steps, heap, runs, db>>

\* step_run: steps = steps_repo.get_by_run(run.id)
LoadSteps(q) ==
    /\ inflight[q].pc = "run"
    /\ inflight' = [inflight EXCEPT ![q] = [@ EXCEPT !.pc = "steps", !.steps = db.steps]]
    /\ UNCHANGED <<wf, state, phase, call, steps, heap, runs, db>>

\* step_run: state = engine.step(state, user_text); steps_repo.create(step)
SaveStep(q) ==
    /\ inflight[q].pc = "steps"
    /\ \E res \in LLMResults :
        LET c == step(wf, rebuild_state(inflight[q].variables, inflight[q].steps),
                      inflight[q].user_text, <<res>>)
            pre == rebuild_state(inflight[q].variables, inflight[q].steps)
        IN /\ call' = Observed("step", inflight[q].user_text, pre, c)
           /\ IF c.raised
              THEN /\ inflight' = [inflight EXCEPT ![q] = [@ EXCEPT !.pc = "failed"]]
                   /\ db' = db
                   /\ state' = state
              ELSE /\ inflight' = [inflight EXCEPT ![q] = [@ EXCEPT !.pc = "step saved",
                                                                    !.state = c.st]]
                   /\ db' = [db EXCEPT !.steps = Append(@, step_record(c.st))]
                   /\ state' = c.st
    /\ UNCHANGED <<wf, phase, steps, heap, runs>>

\* step_run: run.variables = state.variables; runs_repo.update(run)
SaveRun(q) ==
    /\ inflight[q].pc = "step saved"
    /\ db' = run_update(db, inflight[q].state.variables)
    /\ inflight' = [inflight EXCEPT ![q] = [@ EXCEPT !.pc = "done"]]
    /\ UNCHANGED <<wf, state, phase, call, steps, heap, runs>>

ServiceNext ==
    \/ StartRun
    \/ \E q \in Requests : LoadRun(q) \/ LoadSteps(q) \/ SaveStep(q) \/ SaveRun(q)

ServiceSpec == ServiceInit /\ [][ServiceNext]_vars

-----------------------------------------------------------------------------
(* A run driven until it is done: start or a fresh state, then step after step *)

\* the ways three nodes are linked: chains, a cycle, dangling ids, edges that
\* hide or replace the next pointers
ProgressLinks ==
    { [next |-> l.next, edges |-> l.edges] : l \in PlainLinks }
    \cup { [next |-> <<None, "n3", None>>, edges |-> <<Edge("n1", "n2", <<>>)>>],
           [next |-> <<"n2", "n3", None>>, edges |-> <<Edge("n1", Dangling, <<>>)>>],
           [next |-> <<"n2", "n3", None>>, edges |-> <<Edge("n3", "n2", <<>>)>>],
           [next |-> <<"n1", None, None>>, edges |-> <<>>] }

ProgressTypes ==
    { <<"Prompt", "LLM", "Output">>, <<"Prompt", "Prompt", "Prompt">>,
      <<"SetVar", "Prompt", "Output">>, <<"LLM", "Output", "Prompt">>,
      <<"Output", "If", "LLM">>, <<"Prompt", "Output", "If">> }

ProgressWorkflows ==
    { Workflow(ty, l.next, l.edges, NoVars) : ty \in ProgressTypes, l \in ProgressLinks }

ProgressInit ==
    /\ wf \in ProgressWorkflows
    /\ state = NewState
    /\ phase = "new"
    /\ call = NoCall
    /\ steps = 0
    /\ heap = NoHeap
    /\ runs = NoRuns
    /\ db = NoDb
    /\ inflight = NoRequests

\* the caller's loop goes on: the run has not failed, is not done, and the
\* bound on the calls is not reached
Driving == phase \in {"new", "running"} /\ ~state.done /\ steps < MaxRounds

\* the caller's loop: while not state.done: state = engine.step(state, user_text)
Drive ==
    /\ Driving
    /\ \E user_text \in UserTexts, r \in LLMResults :
        LET c == step(wf, state, user_text, <<r>>)
        IN /\ state' = c.st
           /\ call' = Observed("step", user_text, state, c)
           /\ phase' = IF c.raised THEN "failed" ELSE "running"
    /\ steps' = steps + 1
    /\ UNCHANGED <<wf, heap, runs, db, inflight>>

ProgressNext == Start \/ Drive

\* the caller goes on calling step as long as the run is not done: weak
\* fairness of Drive, whose steps are the ones that count a step call
ProgressSpec ==
    ProgressInit /\ [][ProgressNext]_vars /\ WF_steps(Driving /\ steps' = steps + 1)

-----------------------------------------------------------------------------
(* Engine construction: WorkflowEngine(workflow) builds an executor for every
   node before any start or step call *)

\* the Python types of the config values whose type a validate tests, as the
\* executors need them
SoundTypes == [extract |-> "list", variables |-> "dict"]

\* the keys a node's validate looks for in its config
required(type) ==
    CASE type \in {"Prompt", "Output"} -> {"text"}
      [] type = "LLM" -> {"prompt", "extract"}
      [] type = "If" -> {"condition", "true_target", "false_target"}
      [] type = "SetVar" -> {"variables"}
      [] OTHER -> {}

\* BaseNode.__init__ calls self.validate(): the node class's validate raises
\* ValueError for an absent key, and for an extract that is no list or
\* variables that is no dict
validate_raises(node) ==
    \/ ~(required(node.type) \subseteq DOMAIN node.config)
    \/ node.type = "LLM" /\ node.types.extract # "list"
    \/ node.type = "SetVar" /\ node.types.variables # "dict"

\* node_instance.to_graph_fn(): an If node builds its router from the
\* condition, which raises for a malformed comparison
to_graph_fn_raises(node) ==
    node.type = "If" /\ create_router_raises(node.config.condition)

\* NodeRegistry.create(node) followed by to_graph_fn()
create_raises(node) == validate_raises(node) \/ to_graph_fn_raises(node)

\* a construction that builds the executor of the entry node only
build_graph_raises_for_entry(w) == create_raises(w.nodes[1])

\* _build_graph: the loop over self.workflow.nodes creates the executor of
\* every node, reachable or not; the first failure ends the construction
build_graph_raises(w) == \E i \in 1..Len(w.nodes) : create_raises(w.nodes[i])

\* a node whose config lacks the keys in `missing` and whose tested values have
\* the Python types `types`
RawNode(i, type, next, missing, types) ==
    LET full == ConfigOf(type, i)
    IN [id |-> NodeIds[i], type |-> type, next |-> next,
        config |-> [k \in DOMAIN full \ missing |-> full[k]],
        types |-> types]

Sound == [missing |-> {}, types |-> SoundTypes]

\* the ways the config of one node of a type can be wrong: one required key
\* absent, extract a string, variables a list
FaultsOf(type) ==
    { [missing |-> {k}, types |-> SoundTypes] : k \in required(type) }
    \cup (IF type = "LLM"
          THEN { [missing |-> {}, types |-> [extract |-> "str", variables |-> "dict"]] }
          ELSE {})
    \cup (IF type = "SetVar"
          THEN { [missing |-> {}, types |-> [extract |-> "list", variables |-> "list"]] }
          ELSE {})

BuildTypes ==
    { <<"Prompt", "LLM", "Output">>, <<"SetVar", "If", "Output">>,
      <<"LLM", "SetVar", "If">> }

\* a chain of three, a chain of two that leaves n3 out, and a lone first node
BuildNexts == { <<"n2", "n3", None>>, <<"n2", None, None>>, <<None, None, None>> }

\* the configs of the three nodes: all sound, or exactly one of them faulty
BuildConfigs(ty) ==
    { <<Sound, Sound, Sound>> }
    \cup UNION { { [i \in 1..3 |-> IF i = k THEN f ELSE Sound] : f \in FaultsOf(ty[k]) }
                 : k \in 1..3 }

BuildWorkflows ==
    UNION { { [nodes |-> [i \in 1..3 |->
                            RawNode(i, ty[i], nx[i], cf[i].missing, cf[i].types)],
               edges |-> <<>>, variables |-> NoVars]
              : nx \in BuildNexts, cf \in BuildConfigs(ty) }
            : ty \in BuildTypes }

BuildInit ==
    /\ wf \in BuildWorkflows
    /\ state = NewState
    /\ phase = "unbuilt"
    /\ call = NoCall
    /\ steps = 0
    /\ heap = NoHeap
    /\ runs = NoRuns
    /\ db = NoDb
    /\ inflight = NoRequests

\* engine = WorkflowEngine(workflow): __init__ returns the engine or raises;
\* start and step are methods of the engine it returns
Construct ==
    /\ phase = "unbuilt"
    /\ phase' = IF build_graph_raises(wf) THEN "rejected" ELSE "new"
    /\ UNCHANGED <<wf, state, call, steps, heap, runs, db, inflight>>

BuildNext == Construct \/ Start \/ Step

BuildSpec == BuildInit /\ [][BuildNext]_vars

-----------------------------------------------------------------------------
(* Vocabulary of the properties *)

TypeOf(node_id) == find_node_by_id(wf, node_id).type

\* the last call returned a state (it did not raise)
Returned(op) == call.op = op /\ ~call.raised

\* the node ids the last call executed, as a set
ExecutedSet == { call.executed[i] : i \in 1..Len(call.executed) }

\* node_id has a successor the way the driver resolves one: the target of the
\* first edge from it is a node, or else its next pointer names a node
Resolvable(node_id) ==
    \/ \E i \in 1..Len(wf.edges) :
          /\ wf.edges[i].source = node_id
          /\ \A j \in 1..(i - 1) : wf.edges[j].source # node_id
          /\ \E k \in 1..Len(wf.nodes) : wf.nodes[k].id = wf.edges[i].target
    \/ \E k, m \in 1..Len(wf.nodes) :
          wf.nodes[k].id = node_id /\ wf.nodes[m].id = wf.nodes[k].next

\* the id of that successor, None when there is none
SuccessorOf(node_id) ==
    LET from == { i \in 1..Len(wf.edges) : wf.edges[i].source = node_id }
        first == IF from = {} THEN 0 ELSE CHOOSE i \in from : \A j \in from : i <= j
        ids == { wf.nodes[k].id : k \in 1..Len(wf.nodes) }
        nexts == { wf.nodes[k].next : k \in { m \in 1..Len(wf.nodes) : wf.nodes[m].id = node_id } }
    IN IF first # 0 /\ wf.edges[first].target \in ids THEN wf.edges[first].target
       ELSE IF nexts \cap ids # {} THEN CHOOSE x \in nexts \cap ids : TRUE
       ELSE None

\* the messages the last call appended
Appended == SubSeq(state.messages, Len(call.pre.messages) + 1, Len(state.messages))

-----------------------------------------------------------------------------
(* C1 *)

\* C1: whenever an Output node is executed during a start or step call, the
\* state that call returns has done = true, whether or not the Output node has
\* a resolvable successor.
C1_OutputForcesDone ==
    (/\ call.op \in {"start", "step"}
     /\ ~call.raised
     /\ \E id \in ExecutedSet : TypeOf(id) = "Output")
    => state.done

(* C2 *)

\* C2: start() without input returns done = true exactly when the first node
\* has no successor or is of type Output, and done = false otherwise.
C2_StartDone ==
    (Returned("start") /\ call.input = <<>>)
    => (state.done <=> (~Resolvable(wf.nodes[1].id) \/ wf.nodes[1].type = "Output"))

(* C3 *)

\* C3: start() without input executes exactly one node, the workflow's first
\* node: the returned last_node is the first node's id and no successor is
\* executed in that call, whatever the successor's type.
C3_StartRunsFirstNodeOnly ==
    (Returned("start") /\ call.input = <<>>)
    => (call.executed = <<wf.nodes[1].id>> /\ state.last_node = wf.nodes[1].id)

\* start() returned on a workflow whose first node is followed by an LLM node,
\* the successor start(input_text) would have run
C3_Witness ==
    /\ Returned("start") /\ call.input = <<>>
    /\ IsNode(find_next_node(wf, wf.nodes[1].id))
    /\ find_next_node(wf, wf.nodes[1].id).type = "LLM"
    /\ state.last_node = wf.nodes[1].id

(* C4 *)

\* C4: terminal states are absorbing: from a state with done = true returned by
\* start or step, a further step returns done still true and leaves messages
\* and variables unchanged, for every workflow, also one that mixes an edge
\* list with next pointers.
C4_TerminalAbsorbing ==
    [][ (/\ call.op \in {"start", "step"} /\ ~call.raised
         /\ state.done
         /\ steps' = steps + 1)
        => (/\ state'.done
            /\ state'.messages = state.messages
            /\ state'.variables = state.variables) ]_vars

(* C5 *)

\* C5: after a step call whose last executed node is not an Output node, done
\* is true if and only if that node has no resolvable successor (neither the
\* first edge from it nor its next pointer resolves to a node).
C5_DoneIffNoSuccessor ==
    (/\ Returned("step")
     /\ call.executed # <<>>
     /\ TypeOf(Last(call.executed)) # "Output")
    => (state.done <=> ~Resolvable(Last(call.executed)))

(* C6 *)

\* C6: when step resolves an LLM node whose successor is an Output node without
\* successor, and the backend returns a structured object, both nodes run in
\* that call: it appends the user message, the LLM node's assistant message and
\* the Output node's assistant message, in this order, and returns
\* last_node = the Output node's id and done = true.
C6_LLMChainsIntoOutput ==
    (/\ call.op = "step"
     /\ call.executed # <<>>
     /\ TypeOf(call.executed[1]) = "LLM"
     /\ SuccessorOf(call.executed[1]) # None
     /\ TypeOf(SuccessorOf(call.executed[1])) = "Output"
     /\ SuccessorOf(SuccessorOf(call.executed[1])) = None
     /\ call.backend # <<>>
     /\ call.backend[1].result.kind = "dict")
    => (/\ ~call.raised
        /\ call.executed = <<call.executed[1], SuccessorOf(call.executed[1])>>
        /\ Len(Appended) = 3
        /\ Appended[1] = Message("user", call.input)
        /\ Appended[2].role = "assistant"
        /\ Appended[2].content \in { call.backend[1].result.repr,
                                      <<"Hello", " ", "Carol">> }
        /\ Appended[3].role = "assistant"
        /\ Appended[3].content = <<"Thanks", ",", " ">> \o Str(state.variables["name"]) \o <<"!">>
        /\ state.last_node = SuccessorOf(call.executed[1])
        /\ state.done)

(* C7 *)

\* the workflow Prompt P -> Output O, linked by next pointers
IsGreeting ==
    /\ wf.edges = <<>>
    /\ wf.nodes[1].type = "Prompt" /\ wf.nodes[1].next = wf.nodes[2].id
    /\ wf.nodes[2].type = "Output" /\ wf.nodes[2].next = None

\* C7: in a workflow Prompt P -> Output O linked by next pointers, start()
\* returns exactly one assistant message, P's text (rendered against the
\* declared variables), with last_node = P and done = false; the following
\* step(state, u) appends exactly the user message u and O's assistant message
\* rendered with variables["name"] = u, and returns last_node = O and
\* done = true, for every user text u.
C7_GreetingScenario ==
    IsGreeting =>
        /\ (call.op = "start" /\ call.input = <<>>) =>
              /\ ~call.raised
              /\ state.messages =
                   << Message("assistant",
                        IF "name" \in DOMAIN wf.variables
                        THEN <<"Hi", " ">> \o Str(wf.variables["name"])
                             \o <<" ", "{", "{", "user_input", "}", "}", "?">>
                        ELSE wf.nodes[1].config.text) >>
              /\ state.last_node = wf.nodes[1].id
              /\ ~state.done
        /\ (call.op = "step" /\ call.pre.last_node = wf.nodes[1].id) =>
              /\ ~call.raised
              /\ Appended = << Message("user", call.input),
                               Message("assistant",
                                   <<"Thanks", ",", " ">> \o call.input \o <<"!">>) >>
              /\ state.variables["name"] = S(call.input)
              /\ state.last_node = wf.nodes[2].id
              /\ state.done

\* start() then step(state, "Bob") on the greeting workflow: "Thanks, Bob!"
C7_Witness ==
    /\ IsGreeting
    /\ Returned("step")
    /\ call.pre.messages = <<Message("assistant", wf.nodes[1].config.text)>>
    /\ call.input = <<"Bob">>
    /\ Last(state.messages) = Message("assistant", <<"Thanks", ",", " ", "Bob", "!">>)
    /\ state.last_node = "n2" /\ state.done

(* C8 *)

\* C8: in a step call whose resolved node is a Prompt node, the Prompt's
\* successor is executed in the same call if and only if it is an LLM node,
\* and after that the LLM's successor is executed in the same call if and only
\* if it exists and is an Output node.
C8_PromptChain ==
    (/\ Returned("step")
     /\ call.executed # <<>>
     /\ TypeOf(call.executed[1]) = "Prompt")
    => LET s == SuccessorOf(call.executed[1])
       IN /\ Len(call.executed) <= 3
          /\ Len(call.executed) >= 2 <=> (s # None /\ TypeOf(s) = "LLM")
          /\ Len(call.executed) >= 2 =>
                /\ call.executed[2] = s
                /\ Len(call.executed) = 3 <=>
                      (SuccessorOf(s) # None /\ TypeOf(SuccessorOf(s)) = "Output")
                /\ Len(call.executed) = 3 => call.executed[3] = SuccessorOf(s)

(* C9 *)

\* C9: a step call whose resolved node is an If or SetVar node executes only
\* that node: it returns with last_node = that node's id, having appended
\* only the user message; the node's successor waits for another step call.
C9_NoChainAfterIfSetVar ==
    (/\ Returned("step")
     /\ call.executed # <<>>
     /\ TypeOf(call.executed[1]) \in {"If", "SetVar"})
    => (/\ Len(call.executed) = 1
        /\ state.last_node = call.executed[1]
        /\ Appended = <<Message("user", call.input)>>)

\* a step ran a SetVar node that is followed by an Output node, and stopped
C9_Witness ==
    /\ Returned("step")
    /\ call.executed # <<>>
    /\ TypeOf(call.executed[1]) = "SetVar"
    /\ SuccessorOf(call.executed[1]) # None
    /\ TypeOf(SuccessorOf(call.executed[1])) = "Output"
    /\ state.last_node = call.executed[1]
    /\ ~state.done

(* C10 *)

\* the edges from node_id whose target is a node of the workflow
ResolvingEdges(node_id) ==
    { i \in 1..Len(wf.edges) :
        /\ wf.edges[i].source = node_id
        /\ \E k \in 1..Len(wf.nodes) : wf.nodes[k].id = wf.edges[i].target }

\* the node the next pointer of node_id names, None when it names none
NextPointerOf(node_id) ==
    LET named == { wf.nodes[m].id : m \in { m \in 1..Len(wf.nodes) :
                     \E k \in 1..Len(wf.nodes) :
                        wf.nodes[k].id = node_id /\ wf.nodes[k].next = wf.nodes[m].id } }
    IN IF named = {} THEN None ELSE CHOOSE x \in named : TRUE

EdgesFrom(node_id) == { i \in 1..Len(wf.edges) : wf.edges[i].source = node_id }

\* the first of them in declaration order, 0 when there is none
FirstEdgeFrom(node_id) ==
    IF EdgesFrom(node_id) = {} THEN 0
    ELSE CHOOSE i \in EdgesFrom(node_id) : \A j \in EdgesFrom(node_id) : i <= j

StatesAt(last_node) ==
    { [NewState EXCEPT !.last_node = last_node],
      [messages |-> <<Message("assistant", <<"Hi">>)>>,
       variables |-> [_next |-> S(<<"n1">>), name |-> S(<<"Alice">>)],
       last_node |-> last_node,
       done |-> TRUE] }

-----------------------------------------------------------------------------
(* C13 *)

\* the executor of a node of the given type has just been applied
Executed(type) ==
    /\ call.op = "exec"
    /\ Len(call.executed) = 1
    /\ TypeOf(call.executed[1]) = type

\* str(variables[key]) when the key is set, else the placeholder as written
Rendered(variables, key, placeholder) ==
    IF key \in DOMAIN variables THEN Str(variables[key]) ELSE placeholder

\* C13: for any input state, executing the Output executor returns a state
\* with done = true and last_node = the node's id, and appends exactly one
\* assistant message whose content is the node's text rendered against the
\* variables (those of the returned state).
C13_OutputExecutor ==
    Executed("Output")
    => (/\ ~call.raised
        /\ state.done
        /\ state.last_node = call.executed[1]
        /\ state.messages =
             Append(call.pre.messages,
                    Message("assistant",
                        <<"Thanks", ",", " ">>
                        \o Rendered(state.variables, "name", <<"{", "{", " ", "name", " ", "}", "}">>)
                        \o <<"!">>)))

\* the Output executor ran on a state that was not done and held messages and
\* a value for the placeholder of its text
C13_Witness ==
    /\ Executed("Output")
    /\ ~call.pre.done
    /\ call.pre.last_node # call.executed[1]
    /\ Len(call.pre.messages) = 2
    /\ Last(call.pre.messages).role = "assistant"
    /\ call.pre.variables = [name |-> S(<<"Zed">>)]
    /\ Last(state.messages) = Message("assistant", <<"Thanks", ",", " ", "Zed", "!">>)
    /\ state.done

(* C14 *)

\* C14: for any input state, executing the Prompt executor appends exactly one
\* assistant message with the node's text rendered against the variables
\* (those of the returned state), sets last_node to the node's id, leaves done
\* unchanged, and writes variables["user_input"] only when the last message
\* before execution has role user, setting it to that message's content; no
\* other variable is written.
C14_PromptExecutor ==
    Executed("Prompt")
    => (/\ ~call.raised
        /\ Len(state.messages) = Len(call.pre.messages) + 1
        /\ state.messages =
             Append(call.pre.messages, Message("assistant", Last(state.messages).content))
        /\ find_node_by_id(wf, call.executed[1]).config.text = ConfigOf("Prompt", 1).text
           => Last(state.messages).content =
                <<"Hi", " ">>
                \o Rendered(state.variables, "name", <<"{", "{", "name", "}", "}">>)
                \o <<" ">>
                \o Rendered(state.variables, "user_input",
                            <<"{", "{", "user_input", "}", "}">>)
                \o <<"?">>
        /\ state.last_node = call.executed[1]
        /\ state.done = call.pre.done
        /\ state.variables =
             IF call.pre.messages # <<>> /\ Last(call.pre.messages).role = "user"
             THEN Put(call.pre.variables, "user_input", S(Last(call.pre.messages).content))
             ELSE call.pre.variables)

\* the Prompt executor ran on a state whose history holds a user message but
\* ends with an assistant message: user_input keeps its earlier value
C14_Witness ==
    /\ Executed("Prompt")
    /\ Len(call.pre.messages) = 2
    /\ call.pre.messages[1].role = "user"
    /\ call.pre.messages[2].role = "assistant"
    /\ call.pre.done
    /\ "user_input" \in DOMAIN call.pre.variables
    /\ state.variables = call.pre.variables
    /\ Last(state.messages) =
         Message("assistant", <<"Hi", " ", "Alice", " ", "old", "?">>)
    /\ state.done

-----------------------------------------------------------------------------
(* C15 *)

IsPrefix(s, t) == Len(s) <= Len(t) /\ SubSeq(t, 1, Len(s)) = s

\* C15: messages is append-only across start and step calls: the message
\* sequence passed into a call is a prefix of the sequence the caller's state
\* holds after the call, whether the call returned or raised; no existing
\* message is changed, reordered or removed.
C15_MessagesAppendOnly ==
    call.op \in {"start", "step"} => IsPrefix(call.pre.messages, state.messages)

\* a step on a state that already held messages appended a user message and
\* the messages of two chained nodes behind them
C15_Witness ==
    /\ Returned("step")
    /\ Len(call.pre.messages) >= 2
    /\ Len(state.messages) = Len(call.pre.messages) + 3
    /\ IsPrefix(call.pre.messages, state.messages)
    /\ state.messages[Len(call.pre.messages) + 1] = Message("user", call.input)

(* C16 *)

\* C16: no step call removes a key from variables: every key present in the
\* state passed to step is present in the state afterwards, whether step
\* returned or raised (values may be overwritten).
C16_VariablesKeysKept ==
    call.op = "step" => DOMAIN call.pre.variables \subseteq DOMAIN state.variables

\* a step overwrote the value of a key the state passed in already held, and
\* added a key
C16_Witness ==
    /\ Returned("step")
    /\ \E k \in DOMAIN call.pre.variables : state.variables[k] # call.pre.variables[k]
    /\ DOMAIN state.variables # DOMAIN call.pre.variables
    /\ DOMAIN call.pre.variables \subseteq DOMAIN state.variables

(* C17 *)

\* C17: when step finds no successor for state.last_node (the first edge from
\* it does not lead to a node and its next pointer names none), it sets
\* done = true and leaves messages, variables and last_node unchanged:
\* user_text is not appended and no node is executed.
C17_NoSuccessorFrame ==
    (/\ call.op = "step"
     /\ call.pre.last_node # None
     /\ SuccessorOf(call.pre.last_node) = None)
    => (/\ ~call.raised
        /\ call.executed = <<>>
        /\ call.backend = <<>>
        /\ state = [call.pre EXCEPT !.done = TRUE])

\* step found no successor on a state that was not done and held messages
C17_Witness ==
    /\ call.op = "step"
    /\ call.pre.last_node # None
    /\ SuccessorOf(call.pre.last_node) = None
    /\ ~call.pre.done
    /\ call.pre.messages # <<>>
    /\ call.pre.variables # NoVars
    /\ state.done
    /\ state.messages = call.pre.messages

-----------------------------------------------------------------------------
(* C18 *)

\* C18: runs are isolated: start gives each run its own copy of the workflow's
\* declared variables, so under every interleaving of the start and step calls
\* of two runs of one workflow each run's state is the state the same calls
\* yield when that run is made alone, and the workflow's declared variables
\* are never changed by start or step.
C18_RunsIsolated ==
    phase = "runs"
    => (/\ heap[Declared] = wf.variables
        /\ \A r \in RunIds :
              runs[r].started =>
                 /\ runs[r].st.variables # Declared
                 /\ Deref(heap, runs[r].st) = runs[r].alone)

\* two runs of a workflow with declared variables have both been stepped, and
\* each has written variables the other does not hold
C18_Witness ==
    /\ phase = "runs"
    /\ wf.variables # NoVars
    /\ \A r \in RunIds : runs[r].started /\ runs[r].n >= 1 /\ ~runs[r].failed
    /\ heap["a"] # heap["b"]
    /\ heap["a"] # wf.variables
    /\ heap["b"] # wf.variables
    /\ runs["a"].st.last_node # runs["b"].st.last_node

-----------------------------------------------------------------------------
(* C19 *)

\* the calls p and q both loaded the run and its step records before either saved
LoadedTogether(p, q) ==
    /\ p # q
    /\ inflight[p].pc = "done" /\ inflight[q].pc = "done"
    /\ Len(inflight[p].steps) = Len(inflight[q].steps)

\* C19: step_run calls on one run are not serialized.  When two calls both
\* load the persisted run and step history before either saves, both resolve
\* the successor from the same last_node and the run's stored variables end as
\* what one of them computed from what it had loaded: the other call's update
\* is not in them.  With at most one step_run in flight per run, what a
\* call loaded is still what is stored when it saves.
C19_StepRunNotSerialized ==
    /\ phase = "unserialized" =>
          \A p, q \in Requests :
             LoadedTogether(p, q) =>
                /\ inflight[p].steps = inflight[q].steps
                /\ rebuild_state(inflight[p].variables, inflight[p].steps).last_node
                     = rebuild_state(inflight[q].variables, inflight[q].steps).last_node
                /\ inflight[p].state.last_node = inflight[q].state.last_node
                /\ (\A o \in Requests \ {p, q} : inflight[o].pc \in {"idle", "failed"}) =>
                      db.variables \in { inflight[p].state.variables,
                                         inflight[q].state.variables }
    /\ phase = "one in flight" =>
          \A q \in Requests :
             /\ inflight[q].pc \in {"run", "steps", "step saved"} =>
                   inflight[q].variables = db.variables
             /\ inflight[q].pc = "steps" => inflight[q].steps = db.steps
             /\ inflight[q].pc = "step saved" =>
                   db.steps = Append(inflight[q].steps, step_record(inflight[q].state))

\* two calls that loaded together have both saved; the stored variables are
\* those of one call and lack a variable the other call had written
C19_Witness ==
    /\ phase = "unserialized"
    /\ \E p, q \in Requests :
          /\ LoadedTogether(p, q)
          /\ db.variables = inflight[q].state.variables
          /\ \E k \in DOMAIN inflight[p].state.variables :
                /\ k \notin DOMAIN inflight[p].variables
                /\ k \notin DOMAIN db.variables
          /\ Len(db.steps) = 2
          /\ db.steps[1].node_id = db.steps[2].node_id

-----------------------------------------------------------------------------
(* C20 *)

\* the conditions "name == literal" of the If nodes, each with the name and
\* the literal it spells
EqualityCases ==
    { [condition |-> <<"name", " ", "==", " ", "'", "Alice", "'">>,
       name |-> "name", literal |-> <<"Alice">>],
      [condition |-> <<" ", "name", "==", "\"", "7", "\"", " ">>,
       name |-> "name", literal |-> <<"7">>],
      [condition |-> <<"name", " ", "==", " ", "7">>,
       name |-> "name", literal |-> <<"7">>],
      [condition |-> <<"missing", " ", "==", " ", "'", "Alice", "'">>,
       name |-> "missing", literal |-> <<"Alice">>] }

\* C20: for a condition "name == literal" the predicate create_router returns
\* is true exactly when variables[name] is the string the literal spells once
\* surrounding whitespace and quote characters are stripped; it is false, and
\* does not raise, when the variable is absent, holds another string, or holds
\* a value that is not a string, such as the integer 7 against the literal "7".
\* The If executor, which applies the predicate, chooses true_target exactly then.
C20_EqualityPredicate ==
    Executed("If") =>
        \A e \in EqualityCases :
            find_node_by_id(wf, call.executed[1]).config.condition = e.condition =>
                LET holds == /\ e.name \in DOMAIN call.pre.variables
                             /\ call.pre.variables[e.name] = [t |-> "str", v |-> e.literal]
                    router == create_router(e.condition, call.pre)
                IN /\ ~router.raised
                   /\ router.value = holds
                   /\ ~call.raised
                   /\ state.variables["_next"] = S(<<IF holds THEN "n3" ELSE "n1">>)

\* the predicate of a condition with the quoted literal "7" was applied to a
\* state whose variable holds the integer 7, and was false
C20_Witness ==
    /\ Executed("If")
    /\ find_node_by_id(wf, call.executed[1]).config.condition
         = <<" ", "name", "==", "\"", "7", "\"", " ">>
    /\ "name" \in DOMAIN call.pre.variables
    /\ call.pre.variables["name"] = [t |-> "int", v |-> <<"7">>]
    /\ state.variables["_next"] = S(<<"n1">>)

-----------------------------------------------------------------------------
(* C21 *)

\* the condition of the node just executed
ConditionExecuted == find_node_by_id(wf, call.executed[1]).config.condition

\* the value each condition without "==" yields on the state st: a missing
\* field yields null
Yields(condition, st) ==
    CASE condition = <<"done">> -> [t |-> "bool", v |-> IF st.done THEN <<"True">> ELSE <<"False">>]
      [] condition = <<"last_node">> ->
            IF st.last_node = None THEN [t |-> "null", v |-> <<"None">>]
            ELSE [t |-> "str", v |-> <<st.last_node>>]
      [] condition = <<"messages">> -> [t |-> "list", v |-> <<"[..]">>]
      [] condition = <<"variables">> -> [t |-> "dict", v |-> <<"{..}">>]
      [] condition = <<"variables", ".", "name">> ->
            IF "name" \in DOMAIN st.variables THEN st.variables["name"]
            ELSE [t |-> "null", v |-> <<"None">>]
      [] condition = <<"variables", ".", "greeted">> ->
            IF "greeted" \in DOMAIN st.variables THEN st.variables["greeted"]
            ELSE [t |-> "null", v |-> <<"None">>]
      [] OTHER -> [t |-> "null", v |-> <<"None">>]

\* C21: for a condition without "==", evaluating the predicate on a state for
\* which the expression yields a value that is not a boolean (null for a
\* missing field included) raises an error: no truth value is returned and the
\* If executor applying it writes nothing.  On a boolean the predicate returns
\* that boolean.
C21_NonBooleanRaises ==
    (Executed("If") /\ "==" \notin { ConditionExecuted[i] : i \in 1..Len(ConditionExecuted) })
    => LET value == Yields(ConditionExecuted, call.pre)
           router == create_router(ConditionExecuted, call.pre)
       IN IF value.t = "bool"
          THEN /\ ~router.raised /\ ~call.raised
               /\ router.value = (value.v = <<"True">>)
               /\ state.variables["_next"] = S(<<IF value.v = <<"True">> THEN "n3" ELSE "n1">>)
          ELSE /\ router.raised /\ call.raised
               /\ state = call.pre

\* the predicate was evaluated on states where the expression yields null for
\* a missing field, and it raised
C21_Witness ==
    /\ Executed("If")
    /\ ConditionExecuted = <<"variables", ".", "greeted">>
    /\ "greeted" \notin DOMAIN call.pre.variables
    /\ call.pre.variables # NoVars
    /\ call.raised
    /\ state = call.pre

-----------------------------------------------------------------------------
(* C22 *)

\* the positions of the last call's executed nodes that are LLM nodes
LLMExecutions == { k \in 1..Len(call.executed) : TypeOf(call.executed[k]) = "LLM" }

\* C22: when the backend fails during an LLM node, the start or step call
\* fails: the failing invocation is the call's last one and the only one made
\* for that node (one invocation per LLM node executed, no retry), and the LLM
\* node is the last node the call executed.
C22_BackendFailureFailsCall ==
    \A i \in 1..Len(call.backend) :
        call.backend[i].result.kind = "fail"
        => /\ call.op \in {"start", "step"}
           /\ call.raised
           /\ i = Len(call.backend)
           /\ Cardinality(LLMExecutions) = Len(call.backend)
           /\ call.executed # <<>>
           /\ TypeOf(Last(call.executed)) = "LLM"

\* the backend failed in an LLM node chained after a Prompt node whose own
\* successor is an Output node: the Output node was not run
C22_Witness ==
    /\ call.op = "step"
    /\ call.raised
    /\ Len(call.executed) = 2
    /\ TypeOf(call.executed[1]) = "Prompt"
    /\ TypeOf(call.executed[2]) = "LLM"
    /\ Len(call.backend) = 1
    /\ call.backend[1].result.kind = "fail"
    /\ SuccessorOf(call.executed[2]) # None
    /\ TypeOf(SuccessorOf(call.executed[2])) = "Output"

-----------------------------------------------------------------------------
(* C23 *)

\* how many of the messages the last call appended have the given role
AppendedBy(role) == Cardinality({ i \in 1..Len(Appended) : Appended[i].role = role })

\* C23: a start or step call executes at most three nodes, whatever the
\* successor relation of the workflow (cycles included); a step call appends
\* at most one user message and at most three assistant messages.
C23_AtMostThreeNodes ==
    /\ call.op \in {"start", "step"} => Len(call.executed) <= 3
    /\ call.op = "step" => /\ AppendedBy("user") <= 1
                           /\ AppendedBy("assistant") <= 3
                           /\ AppendedBy("user") + AppendedBy("assistant") = Len(Appended)

\* a step call on a workflow whose successor relation is a cycle ran three
\* nodes, appended three assistant messages and stopped although the last
\* node's successor is the node it began with
C23_Witness ==
    /\ Returned("step")
    /\ Len(call.executed) = 3
    /\ AppendedBy("user") = 1
    /\ AppendedBy("assistant") = 3
    /\ SuccessorOf(call.executed[3]) = call.executed[1]

-----------------------------------------------------------------------------
(* C24 *)

\* a template's pieces filled in: a placeholder whose name is a key becomes
\* str of the value, every other piece stays as written
RECURSIVE Fill(_, _)
Fill(pieces, variables) ==
    IF pieces = <<>> THEN <<>>
    ELSE LET p == Head(pieces)
         IN (IF p.hole /\ p.name \in DOMAIN variables THEN Str(variables[p.name]) ELSE p.raw)
            \o Fill(Tail(pieces), variables)

\* the text of the Prompt node just executed
TextExecuted == find_node_by_id(wf, call.executed[1]).config.text

\* C24: render never raises, leaves every placeholder whose name is not a key
\* of the variables verbatim and replaces a placeholder whose name is a key by
\* str of that variable's value; render(t, {}) = t.  Observed on the message
\* the Prompt executor renders from its text and the variables it returns.
C24_RenderTemplate ==
    Executed("Prompt")
    => /\ ~call.raised
       /\ render_template(TextExecuted, NoVars) = TextExecuted
       /\ \A pieces \in TemplatePieces :
            TextOf(pieces) = TextExecuted
            => /\ Last(state.messages).content = Fill(pieces, state.variables)
               /\ render_template(TextExecuted, state.variables) = Fill(pieces, state.variables)
               /\ state.variables = NoVars => Last(state.messages).content = TextExecuted

\* a template holding a placeholder of a known name next to one of an unknown
\* name was rendered: the value stands for the first, the second is as written
C24_Witness ==
    /\ Executed("Prompt")
    /\ TextExecuted = <<"{", "{", " ", "name", " ", " ", "}", "}", "{", "{", "missing", "}", "}">>
    /\ "name" \in DOMAIN state.variables
    /\ "missing" \notin DOMAIN state.variables
    /\ Last(state.messages).content
         = Str(state.variables["name"]) \o <<"{", "{", "missing", "}", "}">>

-----------------------------------------------------------------------------
(* C25 *)

\* C25: a start or step call that returns after executing at least one node
\* returns last_node = the id of the last node it executed; a step call that
\* executes no node returns last_node as it was.
C25_LastNodeIsLastExecuted ==
    (Returned("start") \/ Returned("step"))
    => IF call.executed # <<>>
       THEN state.last_node = Last(call.executed)
       ELSE call.op = "step" => state.last_node = call.pre.last_node

\* a step call ran a chain of three different nodes and returned the third as
\* last_node
C25_Witness ==
    /\ Returned("step")
    /\ Len(call.executed) = 3
    /\ state.last_node = call.executed[3]
    /\ state.last_node \notin {call.executed[1], call.executed[2]}

-----------------------------------------------------------------------------
(* C26 *)

\* the positions of the returned messages that are the user message `text`
UserMessagesOf(text) ==
    { i \in 1..Len(state.messages) : state.messages[i] = Message("user", text) }

\* C26: start(input_text) with a non-empty input appends input_text as a user
\* message before the first node runs.  If the first node's successor is an
\* LLM node, input_text is appended a second time and the LLM node runs in the
\* same call, and after it its successor if that is an Output node; if the
\* first node's successor is missing or is not an LLM node, only the first
\* node runs and input_text appears once.
C26_StartWithInput ==
    (Returned("start") /\ call.input # <<>>)
    => LET first == wf.nodes[1].id
           s == SuccessorOf(first)
       IN /\ call.executed # <<>>
          /\ call.executed[1] = first
          /\ state.messages[1] = Message("user", call.input)
          /\ IF s # None /\ TypeOf(s) = "LLM"
             THEN /\ Cardinality(UserMessagesOf(call.input)) = 2
                  /\ Len(call.executed) >= 2
                  /\ call.executed[2] = s
                  /\ Len(call.executed) = 3 <=>
                        (SuccessorOf(s) # None /\ TypeOf(SuccessorOf(s)) = "Output")
                  /\ Len(call.executed) = 3 => call.executed[3] = SuccessorOf(s)
             ELSE /\ call.executed = <<first>>
                  /\ Cardinality(UserMessagesOf(call.input)) = 1

-----------------------------------------------------------------------------
(* C27 *)

\* the condition holds on the state st: the variable is the string the literal
\* spells, or the expression yields true
ConditionHolds(condition, st) ==
    IF \E e \in EqualityCases : e.condition = condition
    THEN \E e \in EqualityCases :
            /\ e.condition = condition
            /\ e.name \in DOMAIN st.variables
            /\ st.variables[e.name] = [t |-> "str", v |-> e.literal]
    ELSE Yields(condition, st) = [t |-> "bool", v |-> <<"True">>]

\* C27: executing an If node sets variables["_next"] to true_target when the
\* condition evaluates to true and to false_target otherwise, sets last_node
\* to the node's id and changes nothing else: messages, done and every other
\* variable are as before.
C27_IfExecutor ==
    (Executed("If") /\ ~call.raised)
    => LET node == find_node_by_id(wf, call.executed[1])
           target == IF ConditionHolds(node.config.condition, call.pre)
                     THEN node.config.true_target ELSE node.config.false_target
       IN /\ node.config.true_target # node.config.false_target
          /\ state.variables["_next"] = S(<<target>>)
          /\ state.last_node = node.id
          /\ state.messages = call.pre.messages
          /\ state.done = call.pre.done
          /\ DOMAIN state.variables = DOMAIN call.pre.variables \cup {"_next"}
          /\ \A k \in DOMAIN call.pre.variables \ {"_next"} :
                state.variables[k] = call.pre.variables[k]

\* an If node ran on a finished state with messages and a "_next" left by an
\* earlier If node: "_next" was overwritten, the other variable kept
C27_Witness ==
    /\ Executed("If")
    /\ ~call.raised
    /\ call.pre.done
    /\ call.pre.messages # <<>>
    /\ call.pre.last_node # None
    /\ "_next" \in DOMAIN call.pre.variables
    /\ call.pre.variables["_next"] # state.variables["_next"]
    /\ "name" \in DOMAIN state.variables
    /\ state.last_node # call.pre.last_node

-----------------------------------------------------------------------------
(* C28 *)

\* the names the config of the SetVar node just executed lists
NamesListed ==
    LET entries == find_node_by_id(wf, call.executed[1]).config.variables
    IN { entries[i].var_name : i \in 1..Len(entries) }

\* C28: executing a SetVar node assigns exactly the names its config lists,
\* overwriting the values they held (the config value true, which is not a
\* string, is assigned as it is; the expression variables.name is assigned
\* the value it yields on the state before, null when name is missing),
\* appends no message, leaves done unchanged and leaves every variable its
\* config does not name unchanged.
C28_SetVarExecutor ==
    Executed("SetVar")
    => /\ ~call.raised
       /\ NamesListed \in {{"greeted", "who"}, {"greeted", "seen"}}
       /\ DOMAIN state.variables = DOMAIN call.pre.variables \cup NamesListed
       /\ state.variables["greeted"] = [t |-> "bool", v |-> <<"True">>]
       /\ "who" \in NamesListed =>
             state.variables["who"] = IF "name" \in DOMAIN call.pre.variables
                                      THEN call.pre.variables["name"]
                                      ELSE [t |-> "null", v |-> <<"None">>]
       /\ \A k \in DOMAIN call.pre.variables \ NamesListed :
             state.variables[k] = call.pre.variables[k]
       /\ state.messages = call.pre.messages
       /\ state.done = call.pre.done

\* a SetVar node ran on a finished state with messages in which "who" held
\* another value: "who" was overwritten, "greeted" added, the others kept
C28_Witness ==
    /\ Executed("SetVar")
    /\ call.pre.done
    /\ call.pre.messages # <<>>
    /\ "who" \in DOMAIN call.pre.variables
    /\ "greeted" \notin DOMAIN call.pre.variables
    /\ "user_input" \in DOMAIN state.variables
    /\ state.variables["who"] # call.pre.variables["who"]
    /\ state.variables["who"] = state.variables["name"]

-----------------------------------------------------------------------------
(* C29 *)

\* C29: every execution of an LLM node that does not raise appends exactly
\* one assistant message, whatever value the backend returned (an object or
\* not): its content is the response field of the result when the node
\* extracts one, otherwise the stringified raw result.
C29_LLMAppendsOneMessage ==
    (Executed("LLM") /\ ~call.raised)
    => LET result == call.backend[1].result
           node == find_node_by_id(wf, call.executed[1])
           extracts == { node.config.extract[i] : i \in 1..Len(node.config.extract) }
       IN /\ Len(state.messages) = Len(call.pre.messages) + 1
          /\ SubSeq(state.messages, 1, Len(call.pre.messages)) = call.pre.messages
          /\ Last(state.messages).role = "assistant"
          /\ Last(state.messages).content =
                IF "response" \in extracts /\ "response" \in DOMAIN result.fields
                THEN Str(result.fields["response"])
                ELSE result.repr

-----------------------------------------------------------------------------
(* C30 *)

\* the messages of st hold no user message
NoUserMessage(st) == \A i \in 1..Len(st.messages) : st.messages[i].role # "user"

\* C30: executing an LLM node on a state whose messages hold no user message
\* raises before the backend is invoked, appends no message and writes no
\* variable (with a user message the backend is invoked); in particular
\* start() without input on a workflow whose first node is an LLM node fails,
\* whatever the backend would answer, without invoking it.
C30_LLMNeedsUserMessage ==
    Executed("LLM")
    => /\ NoUserMessage(call.pre) <=> (call.raised /\ call.backend = <<>>)
       /\ NoUserMessage(call.pre) => state = call.pre
       /\ ~NoUserMessage(call.pre) => Len(call.backend) = 1
       /\ \A r \in LLMResults :
             LET c == start(wf, <<>>, <<r, r>>)
             IN c.raised /\ c.backend = <<>> /\ c.executed = <<wf.nodes[1].id>>

\* an LLM node ran on a state whose only messages are assistant messages, and
\* raised without a backend invocation
C30_Witness ==
    /\ Executed("LLM")
    /\ call.pre.messages # <<>>
    /\ NoUserMessage(call.pre)
    /\ call.pre.variables # NoVars
    /\ call.raised
    /\ call.backend = <<>>
    /\ state = call.pre

-----------------------------------------------------------------------------
(* C31 *)

\* C31: after an LLM node executes with a returned object R, every field of
\* extract that is a key of R holds R's value (an earlier value is
\* overwritten); keys of R that extract does not list are not written, and
\* every other variable is unchanged.
C31_LLMExtracts ==
    (Executed("LLM") /\ ~call.raised /\ call.backend[1].result.kind = "dict")
    => LET R == call.backend[1].result.fields
           node == find_node_by_id(wf, call.executed[1])
           extract == { node.config.extract[i] : i \in 1..Len(node.config.extract) }
           written == extract \cap DOMAIN R
       IN /\ DOMAIN state.variables = DOMAIN call.pre.variables \cup written
          /\ \A f \in written : state.variables[f] = R[f]
          /\ \A k \in DOMAIN call.pre.variables \ written :
                state.variables[k] = call.pre.variables[k]
          /\ \A k \in DOMAIN R \ extract :
                k \notin DOMAIN call.pre.variables => k \notin DOMAIN state.variables

\* an LLM node ran on a state that held another name, with an object holding
\* name and the unlisted key age: name was overwritten, age not written, the
\* other variables kept
C31_Witness ==
    /\ Executed("LLM")
    /\ ~call.raised
    /\ "age" \in DOMAIN call.backend[1].result.fields
    /\ "name" \in DOMAIN call.pre.variables
    /\ "who" \in DOMAIN call.pre.variables
    /\ call.pre.variables["name"] # state.variables["name"]
    /\ state.variables["name"] = call.backend[1].result.fields["name"]
    /\ state.variables["who"] = call.pre.variables["who"]
    /\ "age" \notin DOMAIN state.variables

-----------------------------------------------------------------------------
(* C32 *)

\* the step_run call q has just had its engine call return and saved its record
RecordSaved(q) == inflight[q].pc = "steps" /\ inflight'[q].pc = "step saved"

\* the step_run call q has just updated the run and returned
RunSaved(q) == inflight[q].pc = "step saved" /\ inflight'[q].pc = "done"

-----------------------------------------------------------------------------
(* C34 *)

\* the engine call of the step_run call q has just been made
EngineStepped(q) ==
    inflight[q].pc = "steps" /\ inflight'[q].pc \in {"step saved", "failed"}

\* C34: with one step_run in flight at a time, each step_run resumes at the
\* successor of the last node executed by the previous engine call on the run
\* (state is what that call returned), the first step_run after start_run
\* included: the first node, which start_run executed, is not executed again.
C34_StepRunResumes ==
    [][ (/\ phase = "one in flight"
         /\ db.exists
         /\ \E q \in Requests : EngineStepped(q))
        => /\ call'.op = "step"
           /\ IF SuccessorOf(state.last_node) = None
              THEN call'.executed = <<>>
              ELSE /\ call'.executed # <<>>
                   /\ call'.executed[1] = SuccessorOf(state.last_node)
      ]_vars

-----------------------------------------------------------------------------
(* C35 *)

\* no step_run call is between its first load and its end
NoneInFlight == \A q \in Requests : inflight[q].pc \in {"idle", "done", "failed"}

\* C35: the message history step_run rebuilds from the persisted step records
\* (input_messages then output_messages of each record, in order) equals the
\* messages of the state the previous engine call on the run returned: with
\* no call in flight, what the next step_run would rebuild is state.messages.
C35_RebuiltHistory ==
    (/\ phase = "one in flight"
     /\ db.exists
     /\ NoneInFlight)
    => rebuild_state(db.variables, db.steps).messages = state.messages

-----------------------------------------------------------------------------
(* C36 *)

\* C36: when the engine has returned done = true for the run and the call that
\* made it has saved, the run is recorded as no longer running, so that a
\* later step_run is rejected by the status check instead of invoking the
\* engine again.
C36_DoneRunStopsRunning ==
    (/\ phase = "one in flight"
     /\ db.exists
     /\ NoneInFlight
     /\ call.op \in {"start", "step"}
     /\ ~call.raised
     /\ state.done)
    => db.status # "running"

-----------------------------------------------------------------------------
(* C33 *)

\* the successor relation (first edge from a node, else its next pointer) has
\* no cycle: no node is reached from itself
Acyclic ==
    \A k \in 1..Len(wf.nodes) :
        LET x == wf.nodes[k].id
        IN /\ SuccessorOf(x) # x
           /\ SuccessorOf(SuccessorOf(x)) # x
           /\ SuccessorOf(SuccessorOf(SuccessorOf(x))) # x

\* C33: on a workflow whose successor relation is acyclic, a run on which step
\* is called again and again reaches done = true after finitely many calls,
\* unless an executor fails.
C33_AcyclicRunsFinish ==
    (Acyclic /\ phase \in {"new", "running"}) ~> (state.done \/ phase = "failed")

\* a run on an acyclic workflow became done with its fourth step call
C33_Witness ==
    /\ Acyclic
    /\ phase = "running"
    /\ steps = 4
    /\ state.done
    /\ call.op = "step"
    /\ call.executed = <<>>
    /\ ~call.pre.done

-----------------------------------------------------------------------------
(* C37 *)

\* C37: step mutates the state object it is given and does not roll back when
\* a node raises: the caller's object then holds the appended user message
\* and, when the node that raised was chained after a Prompt node, that
\* Prompt's assistant message, its user_input and last_node = the Prompt's id;
\* when the first node of the call raised, it holds the user message and
\* nothing else new.
C37_StepDoesNotRollBack ==
    (call.op = "step" /\ call.raised)
    => /\ call.executed # <<>>
       /\ Len(state.messages) > Len(call.pre.messages)
       /\ SubSeq(state.messages, 1, Len(call.pre.messages)) = call.pre.messages
       /\ state.messages[Len(call.pre.messages) + 1] = Message("user", call.input)
       /\ IF Len(call.executed) = 1
          THEN state = [call.pre EXCEPT !.messages = Append(@, Message("user", call.input))]
          ELSE /\ Len(call.executed) = 2
               /\ TypeOf(call.executed[1]) = "Prompt"
               /\ TypeOf(call.executed[2]) = "LLM"
               /\ Len(state.messages) = Len(call.pre.messages) + 2
               /\ Last(state.messages).role = "assistant"
               /\ state.variables = Put(call.pre.variables, "user_input", S(call.input))
               /\ state.last_node = call.executed[1]

\* the backend failed in the LLM node chained after a Prompt node: the state
\* object holds the user message, the Prompt's message and its last_node
C37_Witness ==
    /\ call.op = "step"
    /\ call.raised
    /\ Len(call.executed) = 2
    /\ call.pre.messages # <<>>
    /\ Len(state.messages) = Len(call.pre.messages) + 2
    /\ state.messages[Len(state.messages) - 1] = Message("user", call.input)
    /\ Last(state.messages).role = "assistant"
    /\ state.last_node = call.executed[1]
    /\ state.last_node # call.pre.last_node
    /\ state.variables # call.pre.variables

-----------------------------------------------------------------------------
(* C38 *)

\* the last call chained an LLM node, whose backend returned an object, into
\* an Output node
LLMThenOutput ==
    /\ Returned("start") \/ Returned("step")
    /\ Len(call.executed) >= 2
    /\ TypeOf(call.executed[Len(call.executed)]) = "Output"
    /\ TypeOf(call.executed[Len(call.executed) - 1]) = "LLM"
    /\ call.backend # <<>>
    /\ Last(call.backend).result.kind = "dict"

\* C38: in a start or step call that chains an LLM node into an Output node,
\* when the LLM node appended its assistant message, the Output node does not
\* overwrite variables["name"] with the user's text: name is still the value
\* the LLM extracted, and that value is what the Output's message renders.
C38_OutputKeepsExtractedName ==
    LLMThenOutput
    => LET R == Last(call.backend).result.fields
           n == Len(state.messages)
       IN /\ n >= 3
          /\ state.messages[n - 1].role = "assistant"
          /\ "name" \in DOMAIN R =>
                /\ state.variables["name"] = R["name"]
                /\ state.variables["name"] # S(call.input)
                /\ state.messages[n] =
                      Message("assistant", <<"Thanks", ",", " ">> \o Str(R["name"]) \o <<"!">>)

\* a step call ran Prompt, LLM and Output on the user text Alice; the LLM
\* extracted the name Carol, and the Output thanked Carol
C38_Witness ==
    /\ Returned("step")
    /\ LLMThenOutput
    /\ Len(call.executed) = 3
    /\ call.input = <<"Alice">>
    /\ state.variables["name"] = S(<<"Carol">>)
    /\ Last(state.messages) = Message("assistant", <<"Thanks", ",", " ", "Carol", "!">>)

-----------------------------------------------------------------------------
(* C39 *)

\* C39: the expressions of one SetVar node are evaluated against the state as
\* it was when the node started executing.  For the node whose first entry
\* assigns greeted = true and whose second entry assigns seen the value of
\* variables.greeted, seen is the value greeted had before the node ran (null
\* when it was not set), not the value the first entry assigned.
C39_SetVarReadsStateBefore ==
    (Executed("SetVar") /\ "seen" \in NamesListed)
    => /\ ~call.raised
       /\ state.variables["greeted"] = [t |-> "bool", v |-> <<"True">>]
       /\ state.variables["seen"] = IF "greeted" \in DOMAIN call.pre.variables
                                    THEN call.pre.variables["greeted"]
                                    ELSE [t |-> "null", v |-> <<"None">>]

\* the node ran on a state in which greeted was false: greeted is now true and
\* seen is false
C39_Witness ==
    /\ Executed("SetVar")
    /\ "seen" \in NamesListed
    /\ "greeted" \in DOMAIN call.pre.variables
    /\ call.pre.variables["greeted"] = [t |-> "bool", v |-> <<"False">>]
    /\ state.variables["greeted"] = [t |-> "bool", v |-> <<"True">>]
    /\ state.variables["seen"] = [t |-> "bool", v |-> <<"False">>]


-----------------------------------------------------------------------------
(* C40 *)

\* a required key of the node's type is absent from its config
MissingKey(node) == \E k \in required(node.type) : k \notin DOMAIN node.config

\* a required key is there with a value of the wrong shape: an extract that is
\* no list, variables that is no map
IllShaped(node) ==
    \/ node.type = "LLM" /\ "extract" \in DOMAIN node.config /\ node.types.extract # "list"
    \/ node.type = "SetVar" /\ "variables" \in DOMAIN node.config
         /\ node.types.variables # "dict"

FaultyNodes == { i \in 1..Len(wf.nodes) : MissingKey(wf.nodes[i]) \/ IllShaped(wf.nodes[i]) }

\* C40: a workflow that holds a node with a missing or ill-shaped required
\* config key never gets an engine: its construction is rejected, and no start
\* or step call is ever made on it and its state stays the fresh one, wherever
\* the faulty node is, reached from the first node or not; a workflow whose
\* nodes are all sound is never rejected
C40_FaultyWorkflowRejected ==
    /\ FaultyNodes # {} =>
         /\ phase \in {"unbuilt", "rejected"}
         /\ call = NoCall
         /\ state = NewState
    /\ FaultyNodes = {} => phase # "rejected"

\* a workflow rejected for its third node, which nothing leads to
C40_Witness ==
    /\ phase = "rejected"
    /\ FaultyNodes = {3}
    /\ wf.edges = <<>>
    /\ \A i \in 1..2 : wf.nodes[i].next # "n3"

====
